---- MODULE Spec2Model ----
(***************************************************************************)
(* Model of the lexer core of oxc: the UTF-8 byte cursor `Source`          *)
(* (crates/oxc_parser/src/lexer/source.rs) and the `Lexer` driver on top   *)
(* of it (crates/oxc_parser/src/lexer/mod.rs).                             *)
(*                                                                         *)
(* A source string is the sequence `text` of Unicode scalar values it was  *)
(* built from and `bytes`, its UTF-8 encoding.  Pointers are byte offsets  *)
(* from `start`: `start` is 0, `end` is Len(bytes), `ptr` is the cursor.   *)
(* Byte k of the source (offset k) is bytes[k + 1].                        *)
(***************************************************************************)
EXTENDS Integers, Sequences, FiniteSets, TLC

VARIABLES
    text,       \* the scalar values of the source string (input, never changes)
    bytes,      \* Source: the bytes between `start` and `end`
    ptr,        \* Source.ptr, as an offset from `start`
    pos,        \* a SourcePosition held by the caller, with what was observed then
    last,       \* the last Source operation: its argument, result and pre-state
    fed,        \* the chars returned by next_char() since construction
    token,      \* Lexer.current.token
    errors,     \* Lexer.errors
    lookahead,  \* Lexer.lookahead, the queue of checkpoints
    escaped_strings,    \* Lexer.escaped_strings, as {[start, text]}
    panicked,   \* an unwrap(), an assertion or a slice index of the lexer failed
    context,    \* Lexer.context
    start_ptr,  \* Source.start, the address of the first byte of the source
    beyond,     \* the bytes that lie in memory after `end`, up to memory that cannot be read
    outside,    \* the lexer read a byte that is not of the source
    cp,         \* the LexerCheckpoint the parser holds, with the errors seen then
    lx,         \* the last Lexer operation: its argument, result and pre-state
    owed,       \* the tokens lookahead() produced and next_token() has yet to return
    prevTok,    \* the token next_token() returned before, since the last rewind
    mem,        \* the strings that live in memory, by address
    atom,       \* the Atom built last, with the constructor and its argument
    other       \* the Atom built before it

srcVars == <<pos, last, fed>>

lexVars ==
    <<token, errors, lookahead, escaped_strings, panicked, outside, context, cp, lx, owed, prevTok>>

atomVars == <<mem, atom, other>>

vars == <<text, bytes, start_ptr, beyond, ptr, pos, last, fed, token, errors, lookahead, escaped_strings,
          panicked, outside, context, cp, lx, owed, prevTok, mem, atom, other>>

\* ------------------------------------------------------------------ bounds

\* Longest source of the cursor specification, in characters.
MaxSrcChars == 2

\* Largest argument tried for back(n) and set_offset(k) beyond the source length.
MaxOver == 2

\* Longest source of the lexer specification, in characters.
MaxLexChars == 3

\* Lexing stops growing `errors` beyond this length.
MaxErrors == 2

\* Longest source of the re-lex specification, in characters.
MaxTsChars == 3

\* Most pieces a source of the scanner specification is made of.
MaxPieces == 3

\* The mangler names its bindings from 0 up to this count.
MaxCount == 3520

\* The mangler counts this far up to and beyond u32::MAX, and up to usize::MAX.
MaxRun == 40

\* Longest string written out byte by byte, in bytes beyond MAX_LEN_INLINE.
MaxOverInline == 2

\* --------------------------------------------------------- integer helpers

\* `a & b`
BitAndOf[a \in Nat, b \in Nat] ==
    IF a = 0 \/ b = 0 THEN 0
    ELSE (a % 2) * (b % 2) + 2 * BitAndOf[a \div 2, b \div 2]

BitAnd(a, b) == BitAndOf[a, b]

\* `a | b`
BitOrOf[a \in Nat, b \in Nat] ==
    IF a = 0 THEN b
    ELSE IF b = 0 THEN a
    ELSE (IF a % 2 = 1 \/ b % 2 = 1 THEN 1 ELSE 0) + 2 * BitOrOf[a \div 2, b \div 2]

BitOr(a, b) == BitOrOf[a, b]

\* `a << k` on u32: the bits shifted out of the 32-bit word are dropped.
Shl32(a, k) == (a % (2 ^ (32 - k))) * (2 ^ k)

\* `a >> k`
Shr(a, k) == a \div (2 ^ k)

\* F(x).  TLC evaluates x once, where a LET would evaluate it again at every
\* use inside ENABLED, which no longer ends for the nested calls of the lexer.
Bind(x, F(_)) == CHOOSE v \in {F(y) : y \in {x}} : TRUE

\* ---------------------------------------------------- the source as input

\* Length of the UTF-8 encoding of scalar value c.
Utf8Len(c) == IF c < 128 THEN 1 ELSE IF c < 2048 THEN 2 ELSE IF c < 65536 THEN 3 ELSE 4

\* The UTF-8 encoding of scalar value c: what a `&str` holds for it.
Utf8Encode(c) ==
    IF c < 128 THEN <<c>>
    ELSE IF c < 2048 THEN <<192 + (c \div 64), 128 + (c % 64)>>
    ELSE IF c < 65536 THEN
        <<224 + (c \div 4096), 128 + ((c \div 64) % 64), 128 + (c % 64)>>
    ELSE <<240 + (c \div 262144), 128 + ((c \div 4096) % 64),
           128 + ((c \div 64) % 64), 128 + (c % 64)>>

RECURSIVE Utf8(_)
Utf8(s) == IF s = <<>> THEN <<>> ELSE Utf8Encode(Head(s)) \o Utf8(Tail(s))

RECURSIVE SumLen(_)
SumLen(s) == IF s = <<>> THEN 0 ELSE Utf8Len(Head(s)) + SumLen(Tail(s))

\* The strings of at most n characters over alphabet A.
StringsUpTo(A, n) == UNION {[1..k -> A] : k \in 0..n}

\* Scalar values of the cursor specification: both ends of every encoded length.
SourceChars == {36, 127, 128, 2047, 2048, 65535, 65536, 1114111}

\* `None` of an Option<char> or Option<u8>.
None == -1

\* ------------------------------------------------------------------ Source

\* Mask of the value bits of a continuation byte.
CONT_MASK == 63

utf8_first_byte(byte, width) == BitAnd(byte, Shr(127, width))

utf8_acc_cont_byte(ch, byte) == BitOr(Shl32(ch, 6), BitAnd(byte, CONT_MASK))

is_utf8_cont_byte(byte) == byte >= 128 /\ byte < 192

is_utf8_valid_byte(byte) == byte < 248

\* Source::new: start = 0, end = Len(bytes), ptr = start.
SourceNew(s) == [bytes |-> Utf8(s), ptr |-> 0]

SourceEnd == Len(bytes)

\* Source::remaining: the bytes from ptr to end.
remaining(b, p) == SubSeq(b, p + 1, Len(b))

\* Source::whole
whole(b) == SubSeq(b, 1, Len(b))

is_eof(b, p) == p = Len(b)

\* Source::offset: `(ptr - start) as u32`.  Every length this model builds is
\* far below 2^32, where the cast changes nothing.
offset(p) == p - 0

\* Source::peek_byte_unchecked: the byte at ptr.
peek_byte_unchecked(b, p) == b[p + 1]

\* Source::peek_byte
peek_byte(b, p) == IF p = Len(b) THEN None ELSE peek_byte_unchecked(b, p)

\* Source::next_byte_unchecked: the byte read and the cursor after it.
next_byte_unchecked(b, p) == [byte |-> b[p + 1], ptr |-> p + 1]

\* next_code_point with the 4-byte case keeping all of `init` instead of its
\* lower 3 bits.
next_code_point_no_mask(b, p) ==
    IF p = Len(b) THEN [ch |-> None, ptr |-> p]
    ELSE
        LET rx == [byte |-> b[p + 1], ptr |-> p + 1]
            x  == rx.byte
        IN  IF x < 128 THEN [ch |-> x, ptr |-> rx.ptr]
            ELSE
                LET init == BitAnd(x, 31)
                    y    == b[p + 2]
                    ch2  == BitOr(Shl32(init, 6), BitAnd(y, 63))
                IN  IF x >= 224 THEN
                        LET z   == b[p + 3]
                            y_z == BitOr(Shl32(BitAnd(y, 63), 6), BitAnd(z, 63))
                            ch3 == BitOr(Shl32(init, 12), y_z)
                        IN  IF x >= 240 THEN
                                LET w   == b[p + 4]
                                    ch4 == BitOr(Shl32(init, 18),
                                                 BitOr(Shl32(y_z, 6), BitAnd(w, 63)))
                                IN  [ch |-> ch4, ptr |-> p + 4]
                            ELSE [ch |-> ch3, ptr |-> p + 3]
                    ELSE [ch |-> ch2, ptr |-> p + 2]

\* Source::next_code_point: the code point decoded at p and the cursor after
\* it; ch = None at end of source.
next_code_point(b, p) ==
    IF p = Len(b) THEN [ch |-> None, ptr |-> p]
    ELSE
        LET rx == next_byte_unchecked(b, p)
            x  == rx.byte
        IN  IF x < 128 THEN [ch |-> x, ptr |-> rx.ptr]
            ELSE
                LET init == utf8_first_byte(x, 2)
                    ry   == next_byte_unchecked(b, rx.ptr)
                    y    == ry.byte
                    ch2  == utf8_acc_cont_byte(init, y)
                IN  IF x >= 224 THEN
                        LET rz  == next_byte_unchecked(b, ry.ptr)
                            z   == rz.byte
                            y_z == utf8_acc_cont_byte(BitAnd(y, CONT_MASK), z)
                            ch3 == BitOr(Shl32(init, 12), y_z)
                        IN  IF x >= 240 THEN
                                LET rw  == next_byte_unchecked(b, rz.ptr)
                                    w   == rw.byte
                                    ch4 == BitOr(Shl32(BitAnd(init, 7), 18),
                                                 utf8_acc_cont_byte(y_z, w))
                                IN  [ch |-> ch4, ptr |-> rw.ptr]
                            ELSE [ch |-> ch3, ptr |-> rz.ptr]
                    ELSE [ch |-> ch2, ptr |-> ry.ptr]

\* Source::next_char
source_next_char(b, p) == next_code_point(b, p)

\* Source::peek_char: next_char on a clone, the cursor itself is not moved.
source_peek_char(b, p) == source_next_char(b, p).ch

\* set_offset without the character-boundary assertion.
source_set_offset_no_boundary(b, p, k) ==
    IF ~(k <= Len(b)) THEN [ptr |-> p, panic |-> TRUE]
    ELSE [ptr |-> k, panic |-> FALSE]

\* set_offset asserting `offset < len`: moving to the end panics.
source_set_offset_strict(b, p, k) ==
    IF ~(k < Len(b)) THEN [ptr |-> p, panic |-> TRUE]
    ELSE IF is_utf8_cont_byte(b[k + 1]) THEN [ptr |-> p, panic |-> TRUE]
    ELSE [ptr |-> k, panic |-> FALSE]

\* Source::set_offset: the cursor after the call, and whether it panicked.
source_set_offset(b, p, k) ==
    IF ~(k <= Len(b)) THEN [ptr |-> p, panic |-> TRUE]
    ELSE IF k = Len(b) THEN [ptr |-> Len(b), panic |-> FALSE]
    ELSE IF is_utf8_cont_byte(b[k + 1]) THEN [ptr |-> p, panic |-> TRUE]
    ELSE [ptr |-> k, panic |-> FALSE]

\* back without the character-boundary assertion.
source_back_no_boundary(b, p, n) ==
    IF ~(n > 0) THEN [ptr |-> p, panic |-> TRUE]
    ELSE IF ~(n <= p) THEN [ptr |-> p, panic |-> TRUE]
    ELSE [ptr |-> p - n, panic |-> FALSE]

\* Source::back: the cursor after the call, and whether it panicked.
source_back(b, p, n) ==
    IF ~(n > 0) THEN [ptr |-> p, panic |-> TRUE]
    ELSE IF ~(n <= p) THEN [ptr |-> p, panic |-> TRUE]
    ELSE IF is_utf8_cont_byte(b[(p - n) + 1]) THEN [ptr |-> p, panic |-> TRUE]
    ELSE [ptr |-> p - n, panic |-> FALSE]

\* Source::position: a snapshot of ptr.
source_position(p) == [ptr |-> p]

\* set_position that forgets the assignment to ptr.
source_set_position_keep(p, sp) == p

\* Source::set_position
source_set_position(p, sp) == sp.ptr

\* ------------------------------------------------------------------- Token

\* Token::default()
TokenDefault ==
    [start |-> 0, end |-> 0, kind |-> "Undetermined", is_on_new_line |-> FALSE,
     escaped |-> FALSE]

\* Token::new_on_new_line()
TokenNewOnNewLine == [TokenDefault EXCEPT !.is_on_new_line = TRUE]

\* ------------------------------------------------- character classification

is_ascii(b) == b < 128

is_identifier_start_ascii_byte(b) ==
    \/ b = 95
    \/ b = 36
    \/ (b >= 65 /\ b <= 90)
    \/ (b >= 97 /\ b <= 122)

is_identifier_part_ascii_byte(b) ==
    \/ is_identifier_start_ascii_byte(b)
    \/ (b >= 48 /\ b <= 57)

\* The non-ASCII scalar values of the model's alphabets with the ID_Start
\* property (e-acute) and those with ID_Continue only (zero-width non-joiner).
UnicodeIdStart == {233}
UnicodeIdContinueOnly == {8204}

is_identifier_start_unicode(c) ==
    IF c < 128 THEN is_identifier_start_ascii_byte(c) ELSE c \in UnicodeIdStart

is_identifier_part_unicode(c) ==
    IF c < 128 THEN is_identifier_part_ascii_byte(c)
    ELSE c \in UnicodeIdStart \cup UnicodeIdContinueOnly

\* --------------------------------------------------------------- BytesIter
\* A BytesIter over the source is the offset of its next byte; its end is the
\* end of the source.

bytes_peek(bp) == IF bp >= Len(bytes) THEN None ELSE bytes[bp + 1]

bytes_next(bp) == IF bp >= Len(bytes) THEN bp ELSE bp + 1

\* is_on_utf8_char_boundary that takes every byte that is not ASCII for a
\* continuation byte.
bytes_is_on_utf8_char_boundary_ascii(bp) ==
    IF bp >= Len(bytes) THEN TRUE
    ELSE bytes[bp + 1] < 128

bytes_is_on_utf8_char_boundary(bp) ==
    IF bp >= Len(bytes) THEN TRUE
    ELSE ~(bytes[bp + 1] >= 128 /\ bytes[bp + 1] < 192)

\* BytesIter::as_str: Some(the rest of the string) on a character boundary.
bytes_as_str(bp) ==
    IF bytes_is_on_utf8_char_boundary(bp)
    THEN [some |-> TRUE, str |-> SubSeq(bytes, bp + 1, Len(bytes))]
    ELSE [some |-> FALSE, str |-> <<>>]

\* BytesIter::chars: Some(the Chars of that string, as the offset of its next
\* char).
bytes_chars(bp) ==
    Bind(bytes_as_str(bp), LAMBDA s :
        [some |-> s.some, chars |-> IF s.some THEN Len(bytes) - Len(s.str) ELSE None])

\* BytesIter::peek_char: None when off a character boundary or exhausted.
bytes_peek_char(bp) ==
    IF bytes_is_on_utf8_char_boundary(bp) THEN next_code_point(bytes, bp).ch
    ELSE None

\* BytesIter::next_char: the char and the iterator after it.
bytes_next_char(bp) ==
    IF bytes_is_on_utf8_char_boundary(bp) /\ bp < Len(bytes)
    THEN Bind(next_code_point(bytes, bp), LAMBDA r : [ch |-> r.ch, bp |-> r.ptr])
    ELSE [ch |-> None, bp |-> bp]

\* ------------------------------------------------------------- Lexer state
\* A lexer is the record st of its mutable fields: ptr (the cursor of its
\* Source), token (current.token), errors, lookahead (the queue of
\* checkpoints), escaped_strings, and panic (an unwrap(), assertion or slice
\* index failed during the call).

\* Lexer::error
lexer_error(st, e) == [st EXCEPT !.errors = Append(@, e)]

Diag(kind, c, s, e) == [kind |-> kind, ch |-> c, start |-> s, end |-> e]

\* Lexer::offset
lexer_offset(st) == offset(st.ptr)

\* Lexer::peek
lexer_peek(st) == source_peek_char(bytes, st.ptr)

\* Lexer::next_char
lexer_next_char(st) ==
    Bind(source_next_char(bytes, st.ptr), LAMBDA r :
        [st |-> [st EXCEPT !.ptr = r.ptr], ch |-> r.ch])

\* consume_char that leaves the cursor where it is.
lexer_consume_char_stay(st) == [st |-> st, ch |-> lexer_peek(st)]

\* Lexer::consume_char: next_char().unwrap()
lexer_consume_char(st) ==
    Bind(lexer_next_char(st), LAMBDA r :
        [st |-> [r.st EXCEPT !.panic = @ \/ r.ch = None], ch |-> r.ch])

\* Lexer::next_eq: the lexer afterwards and whether the char matched.
lexer_next_eq(st, c) ==
    Bind(lexer_peek(st) = c, LAMBDA matched :
        [st |-> IF matched THEN lexer_consume_char(st).st ELSE st, matched |-> matched])

\* Lexer::unterminated_range
unterminated_range(st) == [start |-> st.token.start, end |-> lexer_offset(st)]

\* -------------------------------------------------------------- identifiers

BATCH_SIZE == 32

\* An address of the heap: where the allocator puts the source string.
HeapAddr == 4096

\* The source string lies on the heap, before memory that cannot be read.
OnHeap ==
    /\ start_ptr = HeapAddr
    /\ beyond = <<>>

\* Lexer::end_ptr, as an address
end_ptr == start_ptr + Len(bytes)

\* An address is a usize.  The addresses of the model are far below 2^31, and
\* a usize is kept here as an integer modulo 2^64: the negative integer -k is
\* the word 2^64 - k.
\* `a - b` of two usize, in a build without overflow checks
usize_sub(a, b) == a - b

\* `a > b` of two usize
usize_gt(a, b) == IF (a < 0) = (b < 0) THEN a > b ELSE a < 0

\* `curr.read()`, curr an offset from `start`.  Within the source it is a byte
\* of the source.  After `end` it is a read of memory that is not the
\* source's, of which nothing is known: it gives the byte that lies there, or
\* it faults (None) where there is no memory to read.
ptr_read(curr) ==
    IF curr < Len(bytes) THEN bytes[curr + 1]
    ELSE IF curr - Len(bytes) < Len(beyond) THEN beyond[curr - Len(bytes) + 1]
    ELSE None

\* identifier_end that returns the text and leaves the cursor where it was.
identifier_end_stays(st, bp) ==
    [st |-> [st EXCEPT !.panic = @ \/ ~bytes_is_on_utf8_char_boundary(bp)],
     text |-> SubSeq(bytes, st.ptr + 1, bp)]

\* Lexer::identifier_end: the cursor moves to the iterator's position; the text
\* is what lay between.  split_at panics off a character boundary.
identifier_end(st, bp) ==
    [st |-> [st EXCEPT !.ptr = bp,
                       !.panic = @ \/ ~bytes_is_on_utf8_char_boundary(bp)],
     text |-> SubSeq(bytes, st.ptr + 1, bp)]

\* Lexer::identifier_eof
identifier_eof(st) ==
    [st |-> [st EXCEPT !.ptr = Len(bytes)], text |-> remaining(bytes, st.ptr)]

\* Lexer::identifier_tail_consume_ascii: the iterator left on the next byte that
\* is not an ASCII identifier part, and that byte (None at end of source).
RECURSIVE identifier_tail_consume_ascii(_)
identifier_tail_consume_ascii(bp) ==
    LET b == bytes_peek(bp)
    IN  IF b = None THEN [bp |-> bp, b |-> None]
        ELSE IF ~is_identifier_part_ascii_byte(b) THEN [bp |-> bp, b |-> b]
        ELSE identifier_tail_consume_ascii(bytes_next(bp))

\* identifier_consume_unicode_char_if_identifier_part that consumes the char
\* whatever it is.
identifier_consume_unicode_char_whatever(bp) ==
    Bind(bytes_peek_char(bp), LAMBDA c :
        IF c = None THEN [bp |-> bp, at_end |-> TRUE, panic |-> TRUE]
        ELSE [bp |-> bytes_next_char(bp).bp, at_end |-> FALSE, panic |-> FALSE])

\* Lexer::identifier_consume_unicode_char_if_identifier_part
identifier_consume_unicode_char_if_identifier_part(bp) ==
    Bind(bytes_peek_char(bp), LAMBDA c :
        IF c = None THEN [bp |-> bp, at_end |-> TRUE, panic |-> TRUE]
        ELSE IF is_identifier_part_unicode(c)
        THEN [bp |-> bytes_next_char(bp).bp, at_end |-> FALSE, panic |-> FALSE]
        ELSE [bp |-> bp, at_end |-> TRUE, panic |-> FALSE])

\* Lexer::identifier_tail_consume_until_end_or_escape
RECURSIVE identifier_tail_consume_until_end_or_escape(_)
identifier_tail_consume_until_end_or_escape(bp) ==
    Bind(identifier_tail_consume_ascii(bp), LAMBDA a :
        IF a.b = None THEN [bp |-> a.bp, at_end |-> TRUE, panic |-> FALSE]
        ELSE IF is_ascii(a.b) THEN [bp |-> a.bp, at_end |-> a.b # 92, panic |-> FALSE]
        ELSE Bind(identifier_consume_unicode_char_if_identifier_part(a.bp), LAMBDA u :
                IF u.at_end THEN [bp |-> u.bp, at_end |-> TRUE, panic |-> u.panic]
                ELSE identifier_tail_consume_until_end_or_escape(u.bp)))

\* ------------------------------------------------------ identifier escapes

is_hex_digit(b) ==
    \/ (b >= 48 /\ b <= 57)
    \/ (b >= 97 /\ b <= 102)
    \/ (b >= 65 /\ b <= 70)

hex_value(b) ==
    IF b >= 48 /\ b <= 57 THEN b - 48
    ELSE IF b >= 97 /\ b <= 102 THEN b - 87
    ELSE b - 55

MaxCodePoint == 1114111

\* Hex digits read from offset p: at most `most` of them (0: any number); the
\* value saturates just above the largest code point.
RECURSIVE hex_digits(_, _, _, _)
hex_digits(p, most, count, value) ==
    IF (most # 0 /\ count = most) \/ p >= Len(bytes) \/ ~is_hex_digit(bytes[p + 1])
    THEN [ptr |-> p, count |-> count, value |-> value]
    ELSE hex_digits(p + 1, most, count + 1,
                    IF value * 16 + hex_value(bytes[p + 1]) > MaxCodePoint
                    THEN MaxCodePoint + 1
                    ELSE value * 16 + hex_value(bytes[p + 1]))

\* The body of an escape after `u`: `{` hex+ `}` or four hex digits.  Where the
\* cursor stops and the code point, None when malformed.
unicode_escape_value(p) ==
    IF peek_byte(bytes, p) = 123 THEN
        LET h == hex_digits(p + 1, 0, 0, 0)
        IN  IF h.count > 0 /\ h.value <= MaxCodePoint /\ peek_byte(bytes, h.ptr) = 125
            THEN [ptr |-> h.ptr + 1, value |-> h.value]
            ELSE [ptr |-> h.ptr, value |-> None]
    ELSE
        LET h == hex_digits(p, 4, 0, 0)
        IN  IF h.count = 4 THEN [ptr |-> h.ptr, value |-> h.value]
            ELSE [ptr |-> h.ptr, value |-> None]

is_surrogate(c) == c >= 55296 /\ c <= 57343

\* Lexer::identifier_unicode_escape_sequence: the cursor is just after `\`;
\* decodes one escape, appends its character to str or records a diagnostic.
identifier_unicode_escape_sequence(st, str, is_start) ==
    Bind(lexer_next_char(st), LAMBDA u :
        LET start == lexer_offset(st)
        IN  IF u.ch # 117
            THEN [st |-> lexer_error(u.st, Diag("UnicodeEscapeSequence", None, start,
                                                lexer_offset(u.st))),
                  str |-> str]
            ELSE Bind(unicode_escape_value(u.st.ptr), LAMBDA v :
                LET s1 == [u.st EXCEPT !.ptr = v.ptr]
                IN  IF v.value = None \/ is_surrogate(v.value)
                    THEN [st |-> lexer_error(s1, Diag("UnicodeEscapeSequence", None,
                                                      start, lexer_offset(s1))),
                          str |-> str]
                    ELSE IF ~(IF is_start THEN is_identifier_start_unicode(v.value)
                              ELSE is_identifier_part_unicode(v.value))
                    THEN [st |-> lexer_error(s1, Diag("InvalidCharacter", v.value,
                                                      lexer_offset(s1), lexer_offset(s1))),
                          str |-> str]
                    ELSE [st |-> s1, str |-> str \o Utf8Encode(v.value)]))

\* Lexer::save_string(true, text): the decoded text is stored under the start
\* of the current token, which is marked as escaped.
save_string(st, str) ==
    [st EXCEPT !.escaped_strings =
                    {e \in @ : e.start # st.token.start}
                        \cup {[start |-> st.token.start, text |-> str]},
               !.token.escaped = TRUE]

\* Lexer::identifier_after_backslash
RECURSIVE identifier_after_backslash(_, _, _)
identifier_after_backslash(st, str, is_start) ==
    Bind(identifier_unicode_escape_sequence(st, str, is_start), LAMBDA e :
    Bind(identifier_tail_consume_until_end_or_escape(e.st.ptr), LAMBDA t :
        LET s1 == [e.st EXCEPT !.panic = @ \/ t.panic]
        IN  IF t.at_end
            THEN Bind(identifier_end(s1, t.bp), LAMBDA last_chunk :
                    LET txt == e.str \o last_chunk.text
                    IN  [st |-> save_string(last_chunk.st, txt), text |-> txt])
            ELSE LET chunk_len == t.bp - s1.ptr
                 IN  identifier_after_backslash(
                         [s1 EXCEPT !.ptr = s1.ptr + chunk_len + 1],
                         e.str \o SubSeq(bytes, s1.ptr + 1, s1.ptr + chunk_len),
                         FALSE)))

\* Lexer::identifier_backslash_handler
identifier_backslash_handler(st) ==
    identifier_after_backslash(lexer_consume_char(st).st, <<>>, TRUE)

\* identifier_backslash that starts from an empty string, without the part of
\* the identifier before the escape.
identifier_backslash_no_prefix(st, bp, is_start) ==
    LET len_so_far == bp - st.ptr
    IN  identifier_after_backslash(
            [st EXCEPT !.ptr = st.ptr + len_so_far + 1], <<>>, is_start)

\* Lexer::identifier_backslash
identifier_backslash(st, bp, is_start) ==
    LET len_so_far == bp - st.ptr
    IN  identifier_after_backslash(
            [st EXCEPT !.ptr = st.ptr + len_so_far + 1],
            SubSeq(bytes, st.ptr + 1, st.ptr + len_so_far),
            is_start)

\* -------------------------------------------------- identifiers without escape

\* Lexer::identifier_tail_unicode
identifier_tail_unicode(st, bp) ==
    Bind(identifier_consume_unicode_char_if_identifier_part(bp), LAMBDA u :
        LET s1 == [st EXCEPT !.panic = @ \/ u.panic]
        IN  IF ~u.at_end
            THEN Bind(identifier_tail_consume_until_end_or_escape(u.bp), LAMBDA t :
                    LET s2 == [s1 EXCEPT !.panic = @ \/ t.panic]
                    IN  IF ~t.at_end THEN identifier_backslash(s2, t.bp, FALSE)
                        ELSE identifier_end(s2, t.bp))
            ELSE identifier_end(s1, u.bp))

\* Lexer::identifier_tail_after_no_escape
identifier_tail_after_no_escape(st, bp) ==
    Bind(identifier_tail_consume_ascii(bp), LAMBDA a :
        IF a.b = None THEN identifier_eof(st).st
        ELSE IF ~is_ascii(a.b) THEN identifier_tail_unicode(st, a.bp).st
        ELSE IF a.b = 92 THEN identifier_backslash(st, a.bp, FALSE).st
        ELSE identifier_end(st, a.bp).st)

\* `&text[1..]`: the text less its first byte; panics when the text is empty
\* or its second byte is inside a character.
without_first(r) ==
    [st |-> [r.st EXCEPT !.panic =
                @ \/ Len(r.text) = 0
                  \/ (Len(r.text) > 1 /\ r.text[2] >= 128 /\ r.text[2] < 192)],
     text |-> IF Len(r.text) = 0 THEN <<>> ELSE Tail(r.text)]

\* What follows the ASCII run in both the batched and the byte-by-byte scan:
\* curr is on next_byte, the first byte that is not an ASCII identifier part.
identifier_name_tail(st, curr, next_byte) ==
    IF ~is_ascii(next_byte) THEN without_first(identifier_tail_unicode(st, curr))
    ELSE IF next_byte = 92 THEN without_first(identifier_backslash(st, curr, FALSE))
    ELSE [st |-> [st EXCEPT !.ptr = curr], text |-> SubSeq(bytes, st.ptr + 2, curr)]

\* identifier_name_handler_unbatched that returns the identifier with its first
\* byte when it ends at the end of the source.
RECURSIVE identifier_name_handler_unbatched_whole(_, _)
identifier_name_handler_unbatched_whole(st, curr) ==
    IF start_ptr + curr = end_ptr
    THEN [st |-> [st EXCEPT !.ptr = Len(bytes)], text |-> remaining(bytes, st.ptr)]
    ELSE IF is_identifier_part_ascii_byte(bytes[curr + 1])
    THEN identifier_name_handler_unbatched_whole(st, curr + 1)
    ELSE identifier_name_tail(st, curr, bytes[curr + 1])

\* Lexer::identifier_name_handler_unbatched
RECURSIVE identifier_name_handler_unbatched(_, _)
identifier_name_handler_unbatched(st, curr) ==
    IF start_ptr + curr = end_ptr
    THEN [st |-> [st EXCEPT !.ptr = Len(bytes)],
          text |-> Tail(remaining(bytes, st.ptr))]
    ELSE IF is_identifier_part_ascii_byte(bytes[curr + 1])
    THEN identifier_name_handler_unbatched(st, curr + 1)
    ELSE identifier_name_tail(st, curr, bytes[curr + 1])

\* One batch of identifier_name_handler: i bytes of the batch are still to read.
\* The offset of the first byte that is not an ASCII identifier part, or None.
RECURSIVE identifier_batch(_, _)
identifier_batch(curr, i) ==
    IF i = 0 THEN None
    ELSE IF ptr_read(curr) = None THEN curr
    ELSE IF ~is_identifier_part_ascii_byte(ptr_read(curr)) THEN curr
    ELSE identifier_batch(curr + 1, i - 1)

\* The batch has read the byte at offset stop, at or after `end`, and stopped
\* there.  What follows is not defined; the outcomes kept here are that the
\* read faulted, that the byte read at `end` ended the identifier, so that
\* the slices are those of an identifier that ends at `end`, and that a byte
\* after `end` did, which leaves `curr` after `end` and no slice to make.
identifier_read_outside(st, stop) ==
    IF ptr_read(stop) # None /\ stop = Len(bytes)
    THEN [st |-> [st EXCEPT !.ptr = stop, !.outside = TRUE],
          text |-> SubSeq(bytes, st.ptr + 2, stop)]
    ELSE [st |-> [st EXCEPT !.outside = TRUE], text |-> <<>>]

\* The 'outer loop that ends the identifier at whatever byte ends a batch,
\* without the checks for the uncommon cases.
RECURSIVE identifier_name_outer_plain(_, _, _)
identifier_name_outer_plain(st, curr, batching_end) ==
    IF usize_gt(start_ptr + curr, batching_end)
    THEN identifier_name_handler_unbatched(st, curr)
    ELSE LET stop == identifier_batch(curr, BATCH_SIZE)
         IN  IF stop = None
             THEN identifier_name_outer_plain(st, curr + BATCH_SIZE, batching_end)
             ELSE IF stop >= Len(bytes) THEN identifier_read_outside(st, stop)
             ELSE [st |-> [st EXCEPT !.ptr = stop],
                   text |-> SubSeq(bytes, st.ptr + 2, stop)]

\* The 'outer loop of identifier_name_handler.
RECURSIVE identifier_name_outer(_, _, _)
identifier_name_outer(st, curr, batching_end) ==
    IF usize_gt(start_ptr + curr, batching_end)
    THEN identifier_name_handler_unbatched(st, curr)
    ELSE LET stop == identifier_batch(curr, BATCH_SIZE)
         IN  IF stop = None
             THEN identifier_name_outer(
                      [st EXCEPT !.outside = @ \/ curr + BATCH_SIZE > Len(bytes)],
                      curr + BATCH_SIZE, batching_end)
             ELSE IF stop >= Len(bytes) THEN identifier_read_outside(st, stop)
             ELSE identifier_name_tail(st, stop, bytes[stop + 1])

\* Lexer::identifier_name_handler: the cursor is on the ASCII first byte of the
\* identifier.  The lexer afterwards and the identifier's text less that byte.
identifier_name_handler(st) ==
    identifier_name_outer(st, st.ptr + 1, usize_sub(end_ptr, BATCH_SIZE))

\* private_identifier_not_ascii_id that takes the start of the span after it
\* consumed the character.
private_identifier_not_ascii_id_late_start(st) ==
    Bind(bytes_peek_char(st.ptr), LAMBDA c :
        LET b == bytes_peek(st.ptr)
            bad == Bind(lexer_consume_char(st), LAMBDA r :
                       [st |-> lexer_error(r.st, Diag("InvalidCharacter", r.ch,
                                                      lexer_offset(r.st),
                                                      lexer_offset(r.st))),
                        kind |-> "Undetermined"])
        IN  IF ~is_ascii(b) THEN
                IF c = None
                THEN [st |-> [st EXCEPT !.panic = TRUE], kind |-> "Undetermined"]
                ELSE IF is_identifier_start_unicode(c)
                THEN [st |-> identifier_tail_after_no_escape(
                                 st, bytes_next_char(st.ptr).bp),
                      kind |-> "PrivateIdentifier"]
                ELSE bad
            ELSE IF b = 92
            THEN [st |-> identifier_backslash_handler(st).st,
                  kind |-> "PrivateIdentifier"]
            ELSE bad)

\* Lexer::private_identifier_not_ascii_id
private_identifier_not_ascii_id(st) ==
    Bind(bytes_peek_char(st.ptr), LAMBDA c :
        LET b == bytes_peek(st.ptr)
            bad == Bind(lexer_consume_char(st), LAMBDA r :
                       [st |-> lexer_error(r.st, Diag("InvalidCharacter", r.ch,
                                                      lexer_offset(st),
                                                      lexer_offset(r.st))),
                        kind |-> "Undetermined"])
        IN  IF ~is_ascii(b) THEN
                IF c = None
                THEN [st |-> [st EXCEPT !.panic = TRUE], kind |-> "Undetermined"]
                ELSE IF is_identifier_start_unicode(c)
                THEN [st |-> identifier_tail_after_no_escape(
                                 st, bytes_next_char(st.ptr).bp),
                      kind |-> "PrivateIdentifier"]
                ELSE bad
            ELSE IF b = 92
            THEN [st |-> identifier_backslash_handler(st).st,
                  kind |-> "PrivateIdentifier"]
            ELSE bad)

\* private_identifier that treats the end of the source like any other byte
\* that is no ASCII identifier start.
private_identifier_no_eof(st) ==
    LET b == bytes_peek(st.ptr)
    IN  IF is_identifier_start_ascii_byte(b)
        THEN [st |-> identifier_tail_after_no_escape(st, bytes_next(st.ptr)),
              kind |-> "PrivateIdentifier"]
        ELSE IF b # None THEN private_identifier_not_ascii_id(st)
        ELSE [st |-> lexer_error([st EXCEPT !.panic = TRUE],
                                 Diag("InvalidCharacter", None, lexer_offset(st),
                                      lexer_offset(st))),
              kind |-> "Undetermined"]

\* Lexer::private_identifier: the cursor is just after `#`.
private_identifier(st) ==
    LET b == bytes_peek(st.ptr)
    IN  IF b # None THEN
            IF is_identifier_start_ascii_byte(b)
            THEN [st |-> identifier_tail_after_no_escape(st, bytes_next(st.ptr)),
                  kind |-> "PrivateIdentifier"]
            ELSE private_identifier_not_ascii_id(st)
        ELSE LET start == lexer_offset(st)
             IN  [st |-> lexer_error(st, Diag("UnexpectedEnd", None, start, start)),
                  kind |-> "Undetermined"]

\* ------------------------------------------------------- per-byte dispatch

\* The byte search of line_break_handler: from offset p, over spaces and tabs
\* (the bytes NotWhitespaceMatcher does not match) and over the matched bytes
\* for which continue_if holds (`\r`, `\n`).  The offset where it stops.
RECURSIVE byte_search_whitespace(_)
byte_search_whitespace(p) ==
    IF p >= Len(bytes) THEN p
    ELSE IF bytes[p + 1] \in {32, 9} THEN byte_search_whitespace(p + 1)
    ELSE IF bytes[p + 1] \in {13, 10} THEN byte_search_whitespace(p + 1)
    ELSE p

\* Lexer::line_break_handler
line_break_handler(st) ==
    [st |-> [st EXCEPT !.token.is_on_new_line = TRUE,
                       !.ptr = byte_search_whitespace(st.ptr)],
     kind |-> "Skip"]

\* Handler of `<`: `<<=`, `<<`, `<=` or `<`.
read_left_angle(st) ==
    Bind(lexer_next_eq(st, 60), LAMBDA a :
    Bind(lexer_next_eq(a.st, 61), LAMBDA b :
        IF a.matched
        THEN [st |-> b.st, kind |-> IF b.matched THEN "ShiftLeftEq" ELSE "ShiftLeft"]
        ELSE [st |-> b.st, kind |-> IF b.matched THEN "LtEq" ELSE "LAngle"]))

\* Handler of `=`: `===`, `==` or `=`.
read_equal(st) ==
    Bind(lexer_next_eq(st, 61), LAMBDA a :
    Bind(lexer_next_eq(a.st, 61), LAMBDA b :
        IF ~a.matched THEN [st |-> a.st, kind |-> "Eq"]
        ELSE [st |-> b.st, kind |-> IF b.matched THEN "Eq3" ELSE "Eq2"]))

\* A string literal after its opening `"`: it ends at the closing `"`; a line
\* break or the end of the source before that leaves it unterminated.  (The
\* sources hold no `\`, escapes are left out.)
RECURSIVE read_string_literal(_)
read_string_literal(st) ==
    Bind(lexer_next_char(st), LAMBDA r :
        IF r.ch = None \/ r.ch \in {10, 13}
        THEN [st |-> lexer_error(r.st, Diag("UnterminatedString", None,
                                            unterminated_range(r.st).start,
                                            unterminated_range(r.st).end)),
              kind |-> "Undetermined"]
        ELSE IF r.ch = 34 THEN [st |-> r.st, kind |-> "Str"]
        ELSE read_string_literal(r.st))

\* The string of a JSX attribute after its opening `"`: it ends at the closing
\* `"` and may hold line breaks; the end of the source leaves it unterminated.
RECURSIVE read_jsx_string_literal(_)
read_jsx_string_literal(st) ==
    Bind(lexer_next_char(st), LAMBDA r :
        IF r.ch = None
        THEN [st |-> lexer_error(r.st, Diag("UnterminatedString", None,
                                            unterminated_range(r.st).start,
                                            unterminated_range(r.st).end)),
              kind |-> "Eof"]
        ELSE IF r.ch = 34 THEN [st |-> r.st, kind |-> "Str"]
        ELSE read_jsx_string_literal(r.st))

\* Handler of `"`: what it lexes depends on the context of the lexer.
quote_handler(st) ==
    IF st.context = "JsxAttributeValue"
    THEN read_jsx_string_literal(lexer_consume_char(st).st)
    ELSE read_string_literal(lexer_consume_char(st).st)

\* Handler of a character no token starts with.
invalid_character(st) ==
    Bind(lexer_consume_char(st), LAMBDA r :
        [st |-> lexer_error(r.st, Diag("InvalidCharacter", r.ch,
                                       unterminated_range(r.st).start,
                                       unterminated_range(r.st).end)),
         kind |-> "Undetermined"])

\* Handler of a non-ASCII first byte.
unicode_char_handler(st) ==
    LET c == lexer_peek(st)
    IN  IF is_identifier_start_unicode(c)
        THEN [st |-> identifier_tail_after_no_escape(st, bytes_next_char(st.ptr).bp),
              kind |-> "Ident"]
        ELSE invalid_character(st)

\* handle_byte: the handler of the byte at the cursor.
handle_byte(byte, st) ==
    IF byte \in {32, 9} THEN [st |-> lexer_consume_char(st).st, kind |-> "Skip"]
    ELSE IF byte \in {10, 13} THEN line_break_handler(st)
    ELSE IF is_identifier_start_ascii_byte(byte)
    THEN [st |-> identifier_name_handler(st).st, kind |-> "Ident"]
    ELSE IF byte = 92 THEN [st |-> identifier_backslash_handler(st).st, kind |-> "Ident"]
    ELSE IF byte = 35 THEN private_identifier(lexer_consume_char(st).st)
    ELSE IF byte = 60 THEN read_left_angle(lexer_consume_char(st).st)
    ELSE IF byte = 61 THEN read_equal(lexer_consume_char(st).st)
    ELSE IF byte = 34 THEN quote_handler(st)
    ELSE IF ~is_ascii(byte) THEN unicode_char_handler(st)
    ELSE invalid_character(st)

\* ------------------------------------------------------------------- Lexer

\* 4 is the maximum lookahead for TypeScript.
MaxLookahead == 4

\* Lexer::new
LexerNew ==
    [ptr |-> 0, token |-> TokenNewOnNewLine, errors |-> <<>>, lookahead |-> <<>>,
     escaped_strings |-> {}, panic |-> FALSE, outside |-> FALSE,
     context |-> "Regular"]

\* read_next_token that returns what the first handler returned, Skip included.
read_next_token_once(st) ==
    LET s1 == [st EXCEPT !.token.start = lexer_offset(st)]
        byte == peek_byte(bytes, s1.ptr)
    IN  IF byte = None THEN [st |-> s1, kind |-> "Eof"]
        ELSE handle_byte(byte, s1)

\* Lexer::read_next_token
RECURSIVE read_next_token(_)
read_next_token(st) ==
    LET s1 == [st EXCEPT !.token.start = lexer_offset(st)]
        byte == peek_byte(bytes, s1.ptr)
    IN  IF byte = None THEN [st |-> s1, kind |-> "Eof"]
        ELSE Bind(handle_byte(byte, s1),
                  LAMBDA r : IF r.kind # "Skip" THEN r ELSE read_next_token(r.st))

\* Lexer::finish_next
finish_next(st, kind) ==
    LET tok == [st.token EXCEPT !.kind = kind, !.end = lexer_offset(st)]
    IN  [st |-> [st EXCEPT !.token = TokenDefault,
                           !.panic = @ \/ ~(tok.start <= tok.end)],
         token |-> tok]

\* next_token that pops the queue without restoring the cursor.
lexer_next_token_no_restore(st) ==
    IF st.lookahead # <<>>
    THEN [st |-> [st EXCEPT !.lookahead = Tail(@)], token |-> Head(st.lookahead).token]
    ELSE Bind(read_next_token(st), LAMBDA r : finish_next(r.st, r.kind))

\* Lexer::next_token
lexer_next_token(st) ==
    IF st.lookahead # <<>>
    THEN LET checkpoint == Head(st.lookahead)
         IN  [st |-> [st EXCEPT !.lookahead = Tail(@),
                                !.ptr = source_set_position(@, [ptr |-> checkpoint.position])],
              token |-> checkpoint.token]
    ELSE Bind(read_next_token(st), LAMBDA r : finish_next(r.st, r.kind))

\* The loop of Lexer::lookahead: queue entries i + 1 .. n are lexed and pushed.
RECURSIVE lookahead_loop(_, _, _, _)
lookahead_loop(st, i, n, peeked) ==
    IF i >= n THEN [st |-> st, token |-> peeked]
    ELSE Bind(read_next_token(st), LAMBDA r :
         Bind(finish_next(r.st, r.kind), LAMBDA f :
             lookahead_loop(
                 [f.st EXCEPT !.lookahead =
                     Append(@, [position |-> source_position(f.st.ptr).ptr,
                                token |-> f.token,
                                errors_pos |-> Len(f.st.errors)])],
                 i + 1, n, f.token)))

\* lookahead that lexes further tokens from the cursor, not from the position
\* of the last queue entry.
lexer_lookahead_from_cursor(st, n) ==
    IF Len(st.lookahead) > n - 1 THEN [st |-> st, token |-> st.lookahead[n].token]
    ELSE LET tok == st.token
             saved == source_position(st.ptr)
             s2 == [st EXCEPT !.token = TokenDefault]
         IN  Bind(lookahead_loop(s2, Len(st.lookahead), n, TokenDefault), LAMBDA r :
                [st |-> [r.st EXCEPT !.token = tok,
                                     !.ptr = source_set_position(@, saved)],
                 token |-> r.token])

\* lookahead that lexes n further tokens whatever the queue already holds.
lexer_lookahead_n_more(st, n) ==
    IF Len(st.lookahead) > n - 1 THEN [st |-> st, token |-> st.lookahead[n].token]
    ELSE LET tok == st.token
             saved == source_position(st.ptr)
             s1 == IF st.lookahead # <<>>
                   THEN [st EXCEPT !.ptr = source_set_position(
                            @, [ptr |-> st.lookahead[Len(st.lookahead)].position])]
                   ELSE st
             s2 == [s1 EXCEPT !.token = TokenDefault]
         IN  Bind(lookahead_loop(s2, 0, n, TokenDefault), LAMBDA r :
                [st |-> [r.st EXCEPT !.token = tok,
                                     !.ptr = source_set_position(@, saved)],
                 token |-> r.token])

\* lookahead that puts the errors back as they were before it lexed.
lexer_lookahead_forgets_errors(st, n) ==
    IF Len(st.lookahead) > n - 1 THEN [st |-> st, token |-> st.lookahead[n].token]
    ELSE LET tok == st.token
             saved == source_position(st.ptr)
             s1 == IF st.lookahead # <<>>
                   THEN [st EXCEPT !.ptr = source_set_position(
                            @, [ptr |-> st.lookahead[Len(st.lookahead)].position])]
                   ELSE st
             s2 == [s1 EXCEPT !.token = TokenDefault]
         IN  Bind(lookahead_loop(s2, Len(st.lookahead), n, TokenDefault), LAMBDA r :
                [st |-> [r.st EXCEPT !.token = tok,
                                     !.errors = st.errors,
                                     !.ptr = source_set_position(@, saved)],
                 token |-> r.token])

\* lookahead that lexes its n tokens afresh from the cursor every time.
lexer_lookahead_afresh(st, n) ==
    LET tok == st.token
        saved == source_position(st.ptr)
        s2 == [st EXCEPT !.token = TokenDefault, !.lookahead = <<>>]
    IN  Bind(lookahead_loop(s2, 0, n, TokenDefault), LAMBDA r :
           [st |-> [r.st EXCEPT !.token = tok,
                                !.ptr = source_set_position(@, saved)],
            token |-> r.token])

\* Lexer::lookahead
lexer_lookahead(st, n) ==
    IF Len(st.lookahead) > n - 1 THEN [st |-> st, token |-> st.lookahead[n].token]
    ELSE LET tok == st.token
             saved == source_position(st.ptr)
             s1 == IF st.lookahead # <<>>
                   THEN [st EXCEPT !.ptr = source_set_position(
                            @, [ptr |-> st.lookahead[Len(st.lookahead)].position])]
                   ELSE st
             s2 == [s1 EXCEPT !.token = TokenDefault]
         IN  Bind(lookahead_loop(s2, Len(st.lookahead), n, TokenDefault), LAMBDA r :
                [st |-> [r.st EXCEPT !.token = tok,
                                     !.ptr = source_set_position(@, saved)],
                 token |-> r.token])

\* Lexer::checkpoint
lexer_checkpoint(st) ==
    [position |-> source_position(st.ptr).ptr, token |-> st.token,
     errors_pos |-> Len(st.errors)]

\* Vec::truncate
truncate(s, n) == IF n < Len(s) THEN SubSeq(s, 1, n) ELSE s

\* rewind that keeps the lookahead queue.
lexer_rewind_keep_queue(st, checkpoint) ==
    [st EXCEPT !.errors = truncate(@, checkpoint.errors_pos),
               !.ptr = source_set_position(@, [ptr |-> checkpoint.position]),
               !.token = checkpoint.token]

\* Lexer::rewind
lexer_rewind(st, checkpoint) ==
    [st EXCEPT !.errors = truncate(@, checkpoint.errors_pos),
               !.ptr = source_set_position(@, [ptr |-> checkpoint.position]),
               !.token = checkpoint.token,
               !.lookahead = <<>>]

\* re_lex_as_typescript_l_angle that backs up over the whole token.
re_lex_as_typescript_l_angle_back_all(st, kind) ==
    LET n  == IF kind \in {"ShiftLeft", "LtEq"} THEN 2 ELSE 3
        bk == source_back(bytes, st.ptr, n)
        s1 == [st EXCEPT !.token.start = lexer_offset(st) - n,
                         !.ptr = bk.ptr,
                         !.panic = @ \/ bk.panic \/ lexer_offset(st) < n
                                     \/ kind \notin {"ShiftLeft", "LtEq", "ShiftLeftEq"},
                         !.lookahead = <<>>]
    IN  finish_next(s1, "LAngle")

\* Lexer::re_lex_as_typescript_l_angle
re_lex_as_typescript_l_angle(st, kind) ==
    LET n  == IF kind \in {"ShiftLeft", "LtEq"} THEN 2 ELSE 3
        bk == source_back(bytes, st.ptr, n - 1)
        s1 == [st EXCEPT !.token.start = lexer_offset(st) - n,
                         !.ptr = bk.ptr,
                         !.panic = @ \/ bk.panic \/ lexer_offset(st) < n
                                     \/ kind \notin {"ShiftLeft", "LtEq", "ShiftLeftEq"},
                         !.lookahead = <<>>]
    IN  finish_next(s1, "LAngle")

\* ------------------------------------------- the cursor as a state machine

\* --------------------------------------------------------- no Atom at all

\* The bytes of nobody's string.
Wild == [body |-> <<>>, fill |-> <<>>]

\* The bytes of the Atom a panicking constructor built.
NoBytes == <<>>

NoAtom ==
    [bytes |-> NoBytes, text |-> Wild, n |-> <<>>, via |-> "none", panic |-> FALSE, from |-> None]

\* What stays known of an Atom once another was built after it.
Lasting(made) == [bytes |-> made.bytes, text |-> made.text]

\* The lexer makes no Atom.
AtomIdle ==
    /\ mem = <<>>
    /\ atom = NoAtom
    /\ other = Lasting(NoAtom)


NoPos == [ptr |-> None, offset |-> None, remaining |-> <<>>]

Op(op, arg, pre, ret, panic) ==
    [op |-> op, arg |-> arg, pre |-> pre, ret |-> ret, panic |-> panic]

SourceInit ==
    /\ text \in StringsUpTo(SourceChars, MaxSrcChars)
    /\ bytes = SourceNew(text).bytes
    /\ OnHeap
    /\ ptr = SourceNew(text).ptr
    /\ pos = NoPos
    /\ last = Op("new", None, 0, None, FALSE)
    /\ fed = <<>>
    /\ AtomIdle
    /\ token = LexerNew.token
    /\ errors = LexerNew.errors
    /\ lookahead = LexerNew.lookahead
    /\ escaped_strings = LexerNew.escaped_strings
    /\ panicked = LexerNew.panic
    /\ outside = LexerNew.outside
    /\ context = LexerNew.context
    /\ cp = [position |-> None]
    /\ lx = [op |-> "none"]
    /\ owed = <<>>
    /\ prevTok = TokenDefault

\* After a move that is not next_char, `fed` no longer describes the cursor.
Moved == <<None>>

next_char ==
    LET r == source_next_char(bytes, ptr)
    IN  /\ ptr' = r.ptr
        /\ last' = Op("next_char", None, ptr, r.ch, FALSE)
        /\ fed' = IF fed = Moved \/ r.ch = None THEN fed ELSE Append(fed, r.ch)
        /\ UNCHANGED <<text, bytes, start_ptr, beyond, pos, lexVars, atomVars>>

peek_char ==
    /\ last' = Op("peek_char", None, ptr, source_peek_char(bytes, ptr), FALSE)
    /\ UNCHANGED <<text, bytes, start_ptr, beyond, ptr, pos, fed, lexVars, atomVars>>

peek_byte_op ==
    /\ last' = Op("peek_byte", None, ptr, peek_byte(bytes, ptr), FALSE)
    /\ UNCHANGED <<text, bytes, start_ptr, beyond, ptr, pos, fed, lexVars, atomVars>>

position ==
    /\ pos' = [ptr |-> source_position(ptr).ptr, offset |-> offset(ptr),
               remaining |-> remaining(bytes, ptr)]
    /\ last' = Op("position", None, ptr, None, FALSE)
    /\ UNCHANGED <<text, bytes, start_ptr, beyond, ptr, fed, lexVars, atomVars>>

set_position ==
    /\ pos # NoPos
    /\ ptr' = source_set_position(ptr, pos)
    /\ last' = Op("set_position", None, ptr, None, FALSE)
    /\ fed' = Moved
    /\ UNCHANGED <<text, bytes, start_ptr, beyond, pos, lexVars, atomVars>>

set_offset ==
    \E k \in 0..(Len(bytes) + MaxOver) :
        LET r == source_set_offset(bytes, ptr, k)
        IN  /\ ptr' = r.ptr
            /\ last' = Op("set_offset", k, ptr, None, r.panic)
            /\ fed' = Moved
            /\ UNCHANGED <<text, bytes, start_ptr, beyond, pos, lexVars, atomVars>>

back ==
    \E n \in 0..(Len(bytes) + MaxOver) :
        LET r == source_back(bytes, ptr, n)
        IN  /\ ptr' = r.ptr
            /\ last' = Op("back", n, ptr, None, r.panic)
            /\ fed' = Moved
            /\ UNCHANGED <<text, bytes, start_ptr, beyond, pos, lexVars, atomVars>>

SourceNext ==
    \/ next_char
    \/ peek_char
    \/ peek_byte_op
    \/ position
    \/ set_position
    \/ set_offset
    \/ back

SpecSource == SourceInit /\ [][SourceNext]_vars

\* -------------------------------------------- the lexer as a state machine

\* Characters of the lexer specification: a  \n  <  #  e-acute
LexChars == {97, 10, 60, 35, 233}

NoToken ==
    [start |-> 0, end |-> 0, kind |-> "None", is_on_new_line |-> FALSE, escaped |-> FALSE]

NoCheckpoint == [position |-> None, token |-> NoToken, errors_pos |-> 0]

\* The record of a lexer operation: its argument n (for rewind: the length of
\* errors before it), the token it returned,
\* the cursor before it, and for next_token(): `would`, the token next_token()
\* would have returned instead of the lookahead() just before; `due`, the queue
\* entry lookahead() produced for this call; `prev`, the token returned before.
LexOp(op, n, ret, pre, would, due, prev) ==
    [op |-> op, n |-> n, ret |-> ret, pre |-> pre, would |-> would, due |-> due,
     prev |-> prev]

\* The lexer's fields as one record, and the record written back.
LexState ==
    [ptr |-> ptr, token |-> token, errors |-> errors, lookahead |-> lookahead,
     escaped_strings |-> escaped_strings, panic |-> panicked, outside |-> outside,
     context |-> context]

Install(st) ==
    /\ ptr' = st.ptr
    /\ token' = st.token
    /\ errors' = st.errors
    /\ lookahead' = st.lookahead
    /\ escaped_strings' = st.escaped_strings
    /\ panicked' = st.panic
    /\ outside' = st.outside
    /\ context' = st.context

LexerFieldsAt(t, a, m) ==
    /\ text = t
    /\ bytes = SourceNew(t).bytes
    /\ start_ptr = a
    /\ beyond = m
    /\ ptr = LexerNew.ptr
    /\ token = LexerNew.token
    /\ errors = LexerNew.errors
    /\ lookahead = LexerNew.lookahead
    /\ escaped_strings = LexerNew.escaped_strings
    /\ panicked = LexerNew.panic
    /\ outside = LexerNew.outside
    /\ context = LexerNew.context
    /\ cp = [held |-> NoCheckpoint, ptr |-> 0, token |-> NoToken, errors |-> <<>>]
    /\ lx = LexOp("new", 0, NoToken, 0, NoToken, NoCheckpoint, NoToken)
    /\ owed = <<>>
    /\ prevTok = NoToken

LexerFields(t) == LexerFieldsAt(t, HeapAddr, <<>>)

LexInit ==
    /\ \E t \in StringsUpTo(LexChars, MaxLexChars) : LexerFields(t)
    /\ pos = NoPos
    /\ last = Op("new", None, 0, None, FALSE)
    /\ fed = <<>>
    /\ AtomIdle

NextToken ==
    \E r \in {lexer_next_token(LexState)} :
        /\ Len(r.st.errors) <= MaxErrors
        /\ Install(r.st)
        /\ lx' = LexOp("next_token", 0, r.token, ptr,
                       IF lx.op = "lookahead" THEN lx.would ELSE NoToken,
                       IF owed # <<>> THEN Head(owed) ELSE NoCheckpoint,
                       prevTok)
        /\ owed' = IF owed # <<>> THEN Tail(owed) ELSE owed
        /\ prevTok' = r.token
        /\ UNCHANGED <<text, bytes, start_ptr, beyond, cp, srcVars, atomVars>>

Lookahead ==
    \E n \in 1..MaxLookahead :
        \E r \in {lexer_lookahead(LexState, n)} :
            /\ Len(r.st.errors) <= MaxErrors
            /\ Install(r.st)
            /\ lx' = LexOp("lookahead", n, r.token, ptr,
                           lexer_next_token(LexState).token, NoCheckpoint, NoToken)
            /\ owed' = r.st.lookahead
            /\ UNCHANGED <<text, bytes, start_ptr, beyond, cp, prevTok, srcVars, atomVars>>

Checkpoint ==
    /\ cp' = [held |-> lexer_checkpoint(LexState), ptr |-> ptr, token |-> token,
               errors |-> errors]
    /\ lx' = LexOp("checkpoint", 0, NoToken, ptr, NoToken, NoCheckpoint, NoToken)
    /\ UNCHANGED <<text, bytes, start_ptr, beyond, ptr, token, errors, lookahead, escaped_strings,
                   panicked, outside, context, owed, prevTok, srcVars, atomVars>>

Rewind ==
    /\ cp.held # NoCheckpoint
    /\ Install(lexer_rewind(LexState, cp.held))
    /\ lx' = LexOp("rewind", Len(errors), NoToken, ptr, NoToken, NoCheckpoint, NoToken)
    /\ owed' = <<>>
    /\ prevTok' = NoToken
    /\ UNCHANGED <<text, bytes, start_ptr, beyond, cp, srcVars, atomVars>>

\* The parser re-lexes the token next_token() has just returned.
ReLex ==
    /\ lx.op = "next_token"
    /\ lx.ret.kind \in {"ShiftLeft", "LtEq", "ShiftLeftEq"}
    /\ \E r \in {re_lex_as_typescript_l_angle(LexState, lx.ret.kind)} :
           /\ Install(r.st)
           /\ lx' = LexOp("re_lex", 0, r.token, ptr, NoToken, NoCheckpoint, NoToken)
    /\ owed' = <<>>
    /\ prevTok' = NoToken
    /\ UNCHANGED <<text, bytes, start_ptr, beyond, cp, srcVars, atomVars>>

LexNext ==
    \/ NextToken
    \/ Lookahead
    \/ Checkpoint
    \/ Rewind
    \/ ReLex

Spec == LexInit /\ [][LexNext]_vars

\* The loop of bench_lexer: next_token() is called again and again.
DrainNext == NextToken

SpecDrain == LexInit /\ [][DrainNext]_vars /\ WF_vars(NextToken)

\* The sources of the re-lex specification: strings over  <  =  a
TsChars == {60, 61, 97}

TsInit ==
    /\ \E t \in StringsUpTo(TsChars, MaxTsChars) : LexerFields(t)
    /\ pos = NoPos
    /\ last = Op("new", None, 0, None, FALSE)
    /\ fed = <<>>
    /\ AtomIdle

\* The parser at work on a source of angle brackets: every lexer operation.
SpecTs == TsInit /\ [][LexNext]_vars

\* The chars of the sources of the whitespace specification:
\*   a  line feed  carriage return  space  tab
WsChars == {97, 10, 13, 32, 9}

WsInit ==
    /\ \E t \in StringsUpTo(WsChars, MaxLexChars) : LexerFields(t)
    /\ pos = NoPos
    /\ last = Op("new", None, 0, None, FALSE)
    /\ fed = <<>>
    /\ AtomIdle

WsNext ==
    \/ NextToken
    \/ Lookahead
    \/ Checkpoint
    \/ Rewind

\* The parser at work on a source of words, blanks and line breaks.
SpecWs == WsInit /\ [][WsNext]_vars

\* LexerContext
LexerContext == {"Regular", "JsxAttributeValue"}

\* Lexer::set_context
lexer_set_context(st, c) == [st EXCEPT !.context = c]

SetContext ==
    \E c \in LexerContext :
        /\ Install(lexer_set_context(LexState, c))
        /\ lx' = LexOp("set_context", 0, NoToken, ptr, NoToken, NoCheckpoint, NoToken)
        /\ UNCHANGED <<text, bytes, start_ptr, beyond, cp, owed, prevTok, srcVars, atomVars>>

\* The chars of the sources of the context specification:  "  line feed  a
JsxChars == {34, 10, 97}

JsxInit ==
    /\ \E t \in StringsUpTo(JsxChars, MaxLexChars) : LexerFields(t)
    /\ pos = NoPos
    /\ last = Op("new", None, 0, None, FALSE)
    /\ fed = <<>>
    /\ AtomIdle

JsxNext ==
    \/ NextToken
    \/ Lookahead
    \/ SetContext

\* The parser peeks, consumes and switches the context of the lexer.
SpecJsx == JsxInit /\ [][JsxNext]_vars

\* The chars of the sources of the diagnostics specification:  a  #  line feed
ErrChars == {97, 35, 10}

ErrInit ==
    /\ \E t \in StringsUpTo(ErrChars, MaxLexChars) : LexerFields(t)
    /\ pos = NoPos
    /\ last = Op("new", None, 0, None, FALSE)
    /\ fed = <<>>
    /\ AtomIdle

\* The parser peeks, consumes, takes checkpoints and rewinds; it never re-lexes.
SpecErr == ErrInit /\ [][WsNext]_vars

\* ------------------------------------------ the scanners as a state machine

\* The pieces the sources of the scanner specification are made of:
\*   a   1   e-acute   zero-width non-joiner   multiplication sign   space   #
\*   \   \u0041   \u{e9}   and a run of a's one longer than a batch.
ScanPieces ==
    {<<97>>, <<49>>, <<233>>, <<8204>>, <<215>>, <<32>>, <<35>>, <<92>>,
     <<92, 117, 48, 48, 52, 49>>, <<92, 117, 123, 101, 57, 125>>,
     [i \in 1..(BATCH_SIZE + 1) |-> 97]}

RECURSIVE Flatten(_)
Flatten(ps) == IF ps = <<>> THEN <<>> ELSE Head(ps) \o Flatten(Tail(ps))

ScanSources == {Flatten(ps) : ps \in StringsUpTo(ScanPieces, MaxPieces)}

ScanInit ==
    /\ \E t \in ScanSources : LexerFields(t)
    /\ pos = NoPos
    /\ last = Op("new", None, 0, None, FALSE)
    /\ fed = <<>>
    /\ AtomIdle

\* next_token() with the cursor on an ASCII identifier start and nothing
\* queued: read_next_token sets the start of the token, the handler of the
\* byte calls identifier_name_handler, finish_next completes the token.
\* `text` is what identifier_name_handler returned.
IdentifierName ==
    /\ lookahead = <<>>
    /\ peek_byte(bytes, ptr) # None
    /\ is_identifier_start_ascii_byte(peek_byte(bytes, ptr))
    /\ \E r \in {identifier_name_handler(
                     [LexState EXCEPT !.token.start = lexer_offset(LexState)])} :
       \E f \in {finish_next(r.st, "Ident")} :
           /\ Len(f.st.errors) <= MaxErrors
           /\ Install(f.st)
           /\ lx' = [op |-> "identifier_name", n |-> 0, ret |-> f.token, pre |-> ptr,
                     would |-> NoToken, due |-> NoCheckpoint, prev |-> prevTok,
                     text |-> r.text]
           /\ prevTok' = f.token
    /\ UNCHANGED <<text, bytes, start_ptr, beyond, cp, owed, srcVars, atomVars>>

ScanNext ==
    \/ NextToken
    \/ IdentifierName

SpecScan == ScanInit /\ [][ScanNext]_vars

\* ------------------------------------- the scanner, wherever the source lies

\* An address of the first page of memory.
LowAddr == 8

\* Most bytes that can be read after the end of the source.
MaxBeyond == 1

\* The pieces of the sources:  a  space  \  and a run of a's one longer than a
\* batch.  After the source lie a's and spaces.
AddrPieces == {<<97>>, <<32>>, <<92>>, [i \in 1..(BATCH_SIZE + 1) |-> 97]}

AddrInit ==
    /\ \E t \in {Flatten(ps) : ps \in StringsUpTo(AddrPieces, MaxPieces)} :
       \E a \in {LowAddr, HeapAddr} :
       \E m \in StringsUpTo({97, 32}, MaxBeyond) : LexerFieldsAt(t, a, m)
    /\ pos = NoPos
    /\ last = Op("new", None, 0, None, FALSE)
    /\ fed = <<>>
    /\ AtomIdle

\* The lexer goes on for as long as its reads were of the source: what it does
\* after another read is not defined.
AddrIdentifierName == ~outside /\ IdentifierName

AddrNextToken == ~outside /\ NextToken

AddrNext ==
    \/ AddrNextToken
    \/ AddrIdentifierName

SpecAddr == AddrInit /\ [][AddrNext]_vars

\* ------------------------------------------ BytesIter as a state machine
\* `last` is the last call on the iterator: `pre` is the iterator before the
\* call, `arg` the iterator after it, `ret` what the call returned.

BytesInit ==
    /\ \E t \in StringsUpTo(SourceChars, MaxSrcChars) : LexerFields(t)
    /\ pos = NoPos
    /\ last = Op("from", 0, 0, None, FALSE)
    /\ fed = <<>>
    /\ AtomIdle

BytesFrame ==
    UNCHANGED <<text, bytes, start_ptr, beyond, ptr, pos, fed, lexVars, atomVars>>

BytesNext ==
    /\ last' = Op("next", bytes_next(last.arg), last.arg, bytes_peek(last.arg), FALSE)
    /\ BytesFrame

BytesNextChar ==
    /\ \E r \in {bytes_next_char(last.arg)} :
           last' = Op("next_char", r.bp, last.arg, r.ch, FALSE)
    /\ BytesFrame

BytesPeek ==
    /\ last' = Op("peek", last.arg, last.arg, bytes_peek(last.arg), FALSE)
    /\ BytesFrame

BytesPeekChar ==
    /\ last' = Op("peek_char", last.arg, last.arg, bytes_peek_char(last.arg), FALSE)
    /\ BytesFrame

BytesAsStr ==
    /\ last' = Op("as_str", last.arg, last.arg, bytes_as_str(last.arg), FALSE)
    /\ BytesFrame

BytesChars ==
    /\ last' = Op("chars", last.arg, last.arg, bytes_chars(last.arg), FALSE)
    /\ BytesFrame

BytesIterNext ==
    \/ BytesNext
    \/ BytesNextChar
    \/ BytesPeek
    \/ BytesPeekChar
    \/ BytesAsStr
    \/ BytesChars

SpecBytes == BytesInit /\ [][BytesIterNext]_vars

\* ----------------------------------- the scan of a tail, one byte at a time
\* identifier_tail_after_no_escape with its loops unrolled into steps: `last`
\* is the scan, with the loop it is in (`op`), the BytesIter (`arg`) and the
\* cursor the scan started from (`pre`).

\* The chars of the sources:  a  1  e-acute  zero-width non-joiner
\* multiplication sign  space  \
TailChars == {97, 49, 233, 8204, 215, 32, 92}

TailInit ==
    /\ \E t \in StringsUpTo(TailChars, MaxPieces) : LexerFields(t)
    /\ pos = NoPos
    /\ last = Op("new", None, 0, None, FALSE)
    /\ fed = <<>>
    /\ AtomIdle

\* "ascii": in the loop of identifier_tail_consume_ascii that
\* identifier_tail_after_no_escape calls; "until": in the loop of
\* identifier_tail_consume_until_end_or_escape that identifier_tail_unicode calls.
Scanning == last.op \in {"ascii", "until"}

TailFrame == UNCHANGED <<text, bytes, start_ptr, beyond, pos, fed, lookahead, cp, lx, owed, prevTok, atomVars>>

\* The char at the cursor starts an identifier.
AtIdentifierStart ==
    /\ ptr < Len(bytes)
    /\ IF is_ascii(bytes_peek(ptr)) THEN is_identifier_start_ascii_byte(bytes_peek(ptr))
       ELSE is_identifier_start_unicode(bytes_peek_char(ptr))

\* The lexer consumes a char that starts no identifier.
TailSkip ==
    /\ ~Scanning
    /\ ptr < Len(bytes)
    /\ ~AtIdentifierStart
    /\ Install(lexer_consume_char(LexState).st)
    /\ last' = Op("skip", None, ptr, None, FALSE)
    /\ TailFrame

\* A caller of identifier_tail_after_no_escape: the cursor is on the first char
\* of the identifier, the iterator just after it.
TailBegin ==
    /\ ~Scanning
    /\ AtIdentifierStart
    /\ last' = Op("ascii", bytes_next_char(ptr).bp, ptr, None, FALSE)
    /\ UNCHANGED <<ptr, token, errors, escaped_strings, panicked, outside, context>>
    /\ TailFrame

\* One turn of a loop that consumes from the iterator: an ASCII identifier
\* part, or a Unicode char that is an identifier part.
TailAdvance ==
    /\ Scanning
    /\ bytes_peek(last.arg) # None
    /\ \/ /\ is_identifier_part_ascii_byte(bytes_peek(last.arg))
          /\ last' = [last EXCEPT !.arg = bytes_next(@)]
          /\ UNCHANGED panicked
       \/ /\ ~is_ascii(bytes_peek(last.arg))
          /\ \E u \in {identifier_consume_unicode_char_if_identifier_part(last.arg)} :
                /\ ~u.at_end
                /\ last' = [last EXCEPT !.op = "until", !.arg = u.bp]
                /\ panicked' = (panicked \/ u.panic)
    /\ UNCHANGED <<ptr, token, errors, escaped_strings, outside, context>>
    /\ TailFrame

\* The end of the identifier is found: identifier_eof at the end of the source
\* in the first loop, identifier_end otherwise.
TailEnd ==
    /\ Scanning
    /\ \/ /\ bytes_peek(last.arg) = None
          /\ Install(IF last.op = "ascii" THEN identifier_eof(LexState).st
                     ELSE identifier_end(LexState, last.arg).st)
       \/ /\ bytes_peek(last.arg) # None
          /\ is_ascii(bytes_peek(last.arg))
          /\ ~is_identifier_part_ascii_byte(bytes_peek(last.arg))
          /\ bytes_peek(last.arg) # 92
          /\ Install(identifier_end(LexState, last.arg).st)
       \/ /\ bytes_peek(last.arg) # None
          /\ ~is_ascii(bytes_peek(last.arg))
          /\ \E u \in {identifier_consume_unicode_char_if_identifier_part(last.arg)} :
                /\ u.at_end
                /\ Install(identifier_end([LexState EXCEPT !.panic = @ \/ u.panic],
                                          u.bp).st)
    /\ last' = [last EXCEPT !.op = "end"]
    /\ TailFrame

\* A `\` is found: the scan goes on as the scan of an identifier with escapes.
TailEscape ==
    /\ Scanning
    /\ bytes_peek(last.arg) = 92
    /\ \E r \in {identifier_backslash(LexState, last.arg, FALSE)} :
          /\ Len(r.st.errors) <= MaxErrors
          /\ Install(r.st)
    /\ last' = [last EXCEPT !.op = "escape"]
    /\ TailFrame

TailNext ==
    \/ TailSkip
    \/ TailBegin
    \/ TailAdvance
    \/ TailEnd
    \/ TailEscape

SpecTail == TailInit /\ [][TailNext]_vars

\* -------------------------------------------------- properties of the lexer

\* C1: after lookahead(n), next_token() returns the token (start, end, kind,
\* is_on_new_line) it would have returned from the same state had lookahead
\* not been called.
C1_LookaheadPure ==
    (lx.op = "next_token" /\ lx.would # NoToken) => lx.ret = lx.would

\* C2: lookahead(n) returns the n-th token of the queue, and each of the
\* following next_token() calls returns the next token lookahead produced and
\* leaves the cursor at the position recorded for it.
C2_LookaheadThenNext ==
    /\ lx.op = "lookahead" =>
            /\ Len(lookahead) >= lx.n
            /\ lx.ret = lookahead[lx.n].token
            /\ owed = lookahead
    /\ (lx.op = "next_token" /\ lx.due # NoCheckpoint) =>
            /\ lx.ret = lx.due.token
            /\ ptr = lx.due.position

\* The last of at least two peeked tokens was returned, after another one.
C2_Witness ==
    /\ lx.op = "next_token"
    /\ lx.due # NoCheckpoint
    /\ lx.prev # NoToken
    /\ lx.prev.kind # "Eof"
    /\ lx.ret.kind # "Eof"
    /\ lx.prev.end <= lx.ret.start
    /\ owed = <<>>

\* C3: rewind(cp) restores the cursor and the current token to their values at
\* checkpoint time, truncates errors to what they were then and leaves the
\* lookahead queue empty.
C3_RewindRestores ==
    lx.op = "rewind" =>
        /\ ptr = cp.ptr
        /\ token = cp.token
        /\ Len(errors) = Len(cp.errors)
        /\ errors = cp.errors
        /\ lookahead = <<>>

\* A rewind moved the cursor back and dropped an error.
C3_Witness ==
    /\ lx.op = "rewind"
    /\ lx.pre > ptr
    /\ lx.n > Len(errors)
    /\ token = TokenDefault

\* C5: every token next_token() returns has start <= end, and starts at or
\* after the end of the token returned before it (no rewind or re-lex in
\* between), from the queue or lexed directly.
C5_SourceOrder ==
    lx.op = "next_token" =>
        /\ lx.ret.start <= lx.ret.end
        /\ lx.prev # NoToken => lx.prev.end <= lx.ret.start

\* A queued token was returned that starts after a gap behind the previous one.
C5_Witness ==
    /\ lx.op = "next_token"
    /\ lx.due # NoCheckpoint
    /\ lx.prev # NoToken
    /\ lx.prev.end < lx.ret.start
    /\ lx.prev.start < lx.prev.end

\* C6: repeated next_token() never aborts and reaches Eof; every other token
\* consumes at least one byte; an Eof token has start = end = source length
\* and once Eof was returned every later call returns Eof.
C6_ReachesEof ==
    /\ <>(lx.op = "next_token" /\ lx.ret.kind = "Eof")
    /\ [](~panicked)
    /\ []((lx.op = "next_token" /\ lx.ret.kind # "Eof") => ptr > lx.pre)
    /\ []((lx.op = "next_token" /\ lx.ret.kind = "Eof") =>
              (lx.ret.start = Len(bytes) /\ lx.ret.end = Len(bytes)))
    /\ [][(lx.op = "next_token" /\ lx.ret.kind = "Eof") => lx'.ret.kind = "Eof"]_vars

\* Eof was returned twice at the end of a source that raised an error.
C6_Witness ==
    /\ lx.op = "next_token"
    /\ lx.ret.kind = "Eof"
    /\ lx.prev.kind = "Eof"
    /\ errors # <<>>
    /\ ptr = Len(bytes)

\* C11: re_lex_as_typescript_l_angle(kind), called with the cursor right after
\* a token of kind ShiftLeft or LtEq (n = 2) or ShiftLeftEq (n = 3), returns a
\* token of kind LAngle with start = old offset - n and end = start + 1, leaves
\* the cursor at start + 1 and the lookahead queue empty; the next_token() that
\* follows lexes from the byte after that `<`: its token starts there and is
\* the punctuator that byte begins.
C11_ReLexLAngle ==
    [][/\ lx'.op = "re_lex" =>
            LET n == IF lx.ret.kind \in {"ShiftLeft", "LtEq"} THEN 2 ELSE 3
            IN  /\ lx.ret.kind \in {"ShiftLeft", "LtEq", "ShiftLeftEq"}
                /\ ptr = lx.ret.end
                /\ lx'.ret.kind = "LAngle"
                /\ lx'.ret.start = offset(ptr) - n
                /\ lx'.ret.end = lx'.ret.start + 1
                /\ offset(ptr') = lx'.ret.start + 1
                /\ lookahead' = <<>>
                /\ ~panicked'
       /\ (lx.op = "re_lex" /\ lx'.op = "next_token") =>
            /\ lx'.ret.start = lx.ret.end
            /\ lx'.ret.end > lx'.ret.start
            /\ bytes[lx.ret.end + 1] = 60 =>
                    lx'.ret.kind \in {"LAngle", "LtEq", "ShiftLeft", "ShiftLeftEq"}
            /\ bytes[lx.ret.end + 1] = 61 => lx'.ret.kind \in {"Eq", "Eq2", "Eq3"}
            /\ bytes[lx.ret.end + 1] \in {60, 61}]_vars

\* `<<=` was returned by next_token() and re-lexed; the next_token() after that
\* returned the `<=` behind the single `<`.
C11_Witness ==
    /\ lx.op = "next_token"
    /\ lx.ret.kind = "LtEq"
    /\ lx.ret.start = 1
    /\ lx.ret.end = 3
    /\ lx.due = NoCheckpoint
    /\ lx.prev = NoToken
    /\ SubSeq(bytes, 1, 3) = <<60, 60, 61>>

\* ------------------------------------------------- properties of the cursor

\* The scalar value of string s whose encoding starts at byte offset off, or
\* None when off is the end of s or inside a character.
RECURSIVE CharAt(_, _)
CharAt(s, off) ==
    IF s = <<>> THEN None
    ELSE IF off = 0 THEN Head(s)
    ELSE IF off < Utf8Len(Head(s)) THEN None
    ELSE CharAt(Tail(s), off - Utf8Len(Head(s)))

OnCharBoundary(b, p) == p = Len(b) \/ ~(b[p + 1] >= 128 /\ b[p + 1] < 192)

\* C4: after any sequence of next_char, peek_char, peek_byte, set_position,
\* set_offset and back, start <= ptr <= end and ptr is on a UTF-8 character
\* boundary (a panicking call leaves the cursor where it was).
C4_CursorInvariant ==
    /\ 0 <= ptr
    /\ ptr <= Len(bytes)
    /\ OnCharBoundary(bytes, ptr)

\* back(n) moved the cursor to a boundary strictly inside a source that holds
\* a multi-byte character.
C4_Witness ==
    /\ last.op = "back"
    /\ ~last.panic
    /\ 0 < ptr
    /\ ptr < Len(bytes)
    /\ Len(bytes) > Len(text)

\* C7: next_char() returns the scalar value encoded at the cursor and moves
\* the cursor by its UTF-8 length; at end of source it returns None and does
\* not move; after only next_char() calls the offset is the sum of the UTF-8
\* lengths of the characters returned, which are a prefix of the source.
C7_NextCharDecodes ==
    /\ (last.op = "next_char" /\ last.pre < Len(bytes)) =>
            /\ last.ret # None
            /\ last.ret = CharAt(text, last.pre)
            /\ offset(ptr) = last.pre + Utf8Len(last.ret)
    /\ (last.op = "next_char" /\ last.pre = Len(bytes)) =>
            /\ last.ret = None
            /\ offset(ptr) = last.pre
    /\ fed # Moved =>
            /\ Len(fed) <= Len(text)
            /\ fed = SubSeq(text, 1, Len(fed))
            /\ offset(ptr) = SumLen(fed)

\* Two characters were returned, the second one a 4-byte sequence.
C7_Witness ==
    /\ last.op = "next_char"
    /\ fed # Moved
    /\ Len(fed) = 2
    /\ last.ret >= 65536
    /\ offset(ptr) = SumLen(fed)

\* C8: after set_position(p), where p = position() was taken earlier,
\* remaining() and offset() are what they were when p was taken.
C8_PositionRoundTrip ==
    last.op = "set_position" =>
        /\ remaining(bytes, ptr) = pos.remaining
        /\ offset(ptr) = pos.offset

\* set_position(p) brought the cursor back from somewhere else to a position
\* with input left.
C8_Witness ==
    /\ last.op = "set_position"
    /\ last.pre # ptr
    /\ pos.remaining # <<>>
    /\ pos.offset > 0

\* C9: back(n) panics, leaving the cursor where it was, if n = 0, if n is
\* greater than the current offset or if the byte n back is a continuation
\* byte; otherwise the offset decreases by exactly n.
C9_Back ==
    last.op = "back" =>
        LET n == last.arg
            pre == last.pre
        IN  /\ last.panic <=>
                \/ n = 0
                \/ n > pre
                \/ (bytes[(pre - n) + 1] >= 128 /\ bytes[(pre - n) + 1] < 192)
            /\ last.panic => ptr = pre
            /\ ~last.panic => offset(ptr) = pre - n

\* back(n) with 0 < n <= offset panicked: it would have landed mid-character.
C9_Witness ==
    /\ last.op = "back"
    /\ last.panic
    /\ last.arg > 0
    /\ last.arg <= last.pre
    /\ ptr = last.pre

\* C10: set_offset(k) panics, leaving the cursor where it was, if k is
\* greater than the source length or byte k is a continuation byte;
\* otherwise the offset is k afterwards; k = source length is accepted.
C10_SetOffset ==
    last.op = "set_offset" =>
        LET k == last.arg
        IN  /\ last.panic <=>
                \/ k > Len(bytes)
                \/ (k < Len(bytes) /\ bytes[k + 1] >= 128 /\ bytes[k + 1] < 192)
            /\ last.panic => ptr = last.pre
            /\ ~last.panic => offset(ptr) = k

\* set_offset(k) panicked on a mid-character k inside the source.
C10_Witness ==
    /\ last.op = "set_offset"
    /\ last.panic
    /\ last.arg < Len(bytes)
    /\ ptr = last.pre

\* ------------------------------------- properties of the identifier scanner

\* The end of the run of ASCII identifier-part bytes that starts at offset p.
RECURSIVE RunEnd(_)
RunEnd(p) ==
    IF p >= Len(bytes) THEN p
    ELSE IF ~is_identifier_part_ascii_byte(bytes[p + 1]) THEN p
    ELSE RunEnd(p + 1)

\* The identifier scanner consumed exactly the run of ASCII identifier-part
\* bytes it was entered on and returned that run less its first byte.
ConsumedRun ==
    /\ offset(ptr) = RunEnd(lx.pre)
    /\ lx.text = SubSeq(bytes, lx.pre + 2, RunEnd(lx.pre))
    /\ lx.ret.start = lx.pre
    /\ lx.ret.end = RunEnd(lx.pre)
    /\ ~panicked

\* C12 as stated: for every byte b that is not an ASCII identifier part, the
\* scanner entered on a run of ASCII identifier-part bytes followed by b
\* consumes exactly the run, leaves the cursor on b and returns the run less
\* its first byte; a run that reaches the end of the source is returned whole
\* less its first byte with the cursor at the end.
C12_RunThenAnyByte == lx.op = "identifier_name" => ConsumedRun

\* C12, amended: as above when b is an ASCII byte other than `\` or the first
\* byte of a character that is not an identifier part, or when the run reaches
\* the end of the source.
C12_RunThenEndByte ==
    (/\ lx.op = "identifier_name"
     /\ \/ RunEnd(lx.pre) = Len(bytes)
        \/ /\ bytes[RunEnd(lx.pre) + 1] # 92
           /\ ~is_identifier_part_unicode(CharAt(text, RunEnd(lx.pre))))
        => ConsumedRun

\* A run longer than a batch was consumed, ended by a space that the batched
\* loop read in its second batch.
C12_Witness ==
    /\ lx.op = "identifier_name"
    /\ lx.pre = 0
    /\ Len(lx.text) = BATCH_SIZE
    /\ start_ptr + offset(ptr) <= end_ptr - BATCH_SIZE
    /\ bytes[offset(ptr) + 1] = 32

\* The number of characters of the source that lie before byte offset off.
IndexAt(off) == CHOOSE k \in 0..Len(text) : SumLen(SubSeq(text, 1, k)) = off

\* The byte offset of the k-th character of the source (k = Len(text) + 1: the
\* end of the source).
OffsetOf(k) == SumLen(SubSeq(text, 1, k - 1))

\* The number a sequence of hex digits denotes.
RECURSIVE RefHexValue(_)
RefHexValue(ds) ==
    IF ds = <<>> THEN 0
    ELSE RefHexValue(SubSeq(ds, 1, Len(ds) - 1)) * 16 + hex_value(ds[Len(ds)])

\* The escape whose `\` is the i-th character of the source, read off the
\* source text: `\uXXXX` or `\u{X...}`.  Its code point and the index of the
\* character after it; ok is FALSE when there is no well-formed escape.
RefEscape(i) ==
    LET bad == [ok |-> FALSE, value |-> 0, next |-> i]
    IN  IF i + 1 > Len(text) \/ text[i + 1] # 117 THEN bad
        ELSE IF i + 2 <= Len(text) /\ text[i + 2] = 123 THEN
            LET closes == {j \in (i + 3)..Len(text) : text[j] = 125}
            IN  IF closes = {} THEN bad
                ELSE LET j  == CHOOSE c \in closes : \A d \in closes : c <= d
                         ds == SubSeq(text, i + 3, j - 1)
                     IN  IF /\ ds # <<>>
                            /\ \A k \in 1..Len(ds) : is_hex_digit(ds[k])
                            /\ RefHexValue(ds) <= MaxCodePoint
                         THEN [ok |-> TRUE, value |-> RefHexValue(ds), next |-> j + 1]
                         ELSE bad
        ELSE IF i + 5 <= Len(text) /\ \A k \in 2..5 : is_hex_digit(text[i + k])
        THEN [ok |-> TRUE, value |-> RefHexValue(SubSeq(text, i + 2, i + 5)),
              next |-> i + 6]
        ELSE bad

\* The index of the first character from the i-th on that is a `\` or no
\* identifier part: the end of the chunk that starts at the i-th character.
RefRunEnd(i) ==
    CHOOSE j \in i..(Len(text) + 1) :
        /\ j = Len(text) + 1 \/ text[j] = 92 \/ ~is_identifier_part_unicode(text[j])
        /\ \A k \in i..(j - 1) : text[k] # 92 /\ is_identifier_part_unicode(text[k])

\* The identifier whose next character is the i-th of the source, read off the
\* source text: out is the identifier so far with its escapes decoded, esc the
\* number of escapes so far, is_start whether no character was read yet.
\* valid is FALSE when an escape is malformed or denotes a character that may
\* not stand there; next is the index of the character after the identifier.
RECURSIVE RefIdent(_, _, _, _)
RefIdent(i, out, esc, is_start) ==
    IF i > Len(text) THEN [valid |-> TRUE, out |-> out, esc |-> esc, next |-> i]
    ELSE IF text[i] = 92 THEN
        LET e == RefEscape(i)
        IN  IF /\ e.ok
               /\ ~is_surrogate(e.value)
               /\ IF is_start THEN is_identifier_start_unicode(e.value)
                  ELSE is_identifier_part_unicode(e.value)
            THEN RefIdent(e.next, Append(out, e.value), esc + 1, FALSE)
            ELSE [valid |-> FALSE, out |-> out, esc |-> esc, next |-> i]
    ELSE IF is_start THEN
        IF is_identifier_start_unicode(text[i])
        THEN RefIdent(i + 1, Append(out, text[i]), esc, FALSE)
        ELSE [valid |-> TRUE, out |-> out, esc |-> esc, next |-> i]
    ELSE IF RefRunEnd(i) > i
    THEN RefIdent(RefRunEnd(i), out \o SubSeq(text, i, RefRunEnd(i) - 1), esc, FALSE)
    ELSE [valid |-> TRUE, out |-> out, esc |-> esc, next |-> i]

\* The identifier of the token tok, read off the source text; the `#` of a
\* private identifier is not part of it.
RefIdentOf(tok) ==
    RefIdent(IndexAt(tok.start) + (IF tok.kind = "PrivateIdentifier" THEN 2 ELSE 1),
             <<>>, 0, TRUE)

\* C13: when next_token() lexes an identifier or private identifier that
\* holds one or more escapes, all of them valid, the text registered in
\* escaped_strings under the start of the token is the identifier with every
\* unescaped chunk verbatim and every escape decoded, in source order; the
\* token is marked escaped, its span covers the raw source text of the
\* identifier and the cursor is just past it.
C13_EscapedText ==
    (/\ lx.op \in {"next_token", "identifier_name"}
     /\ lx.ret.kind \in {"Ident", "PrivateIdentifier"}
     /\ RefIdentOf(lx.ret).valid
     /\ RefIdentOf(lx.ret).esc >= 1)
        => /\ \E e \in escaped_strings : e.start = lx.ret.start
           /\ \A e \in escaped_strings :
                  e.start = lx.ret.start => e.text = Utf8(RefIdentOf(lx.ret).out)
           /\ lx.ret.escaped
           /\ lx.ret.end = OffsetOf(RefIdentOf(lx.ret).next)
           /\ offset(ptr) = lx.ret.end
           /\ ~panicked

\* `\u0041a\u{e9}` was lexed: two escapes around a chunk, the second decoded
\* to a two-byte character.
C13_Witness ==
    /\ lx.op = "next_token"
    /\ lx.ret.kind = "Ident"
    /\ lx.ret.escaped
    /\ lx.ret.start = 0
    /\ lx.ret.end = 13
    /\ RefIdentOf(lx.ret).esc = 2
    /\ [start |-> 0, text |-> <<65, 97, 195, 169>>] \in escaped_strings
    /\ errors = <<>>

\* --------------------------------------- properties of private identifiers

\* C14: when next_token() comes to a `#` whose next character is neither an
\* identifier start (ASCII or not) nor `\`, it records exactly one diagnostic,
\* InvalidCharacter of that character with a span that covers it, leaves the
\* cursor just past that one character and returns a token of kind
\* Undetermined.
C14_HashThenInvalid ==
    [][(/\ lx'.op = "next_token"
        /\ lookahead = <<>>
        /\ lx'.ret.start + 1 < Len(bytes)
        /\ bytes[lx'.ret.start + 1] = 35
        /\ ~is_identifier_start_unicode(CharAt(text, lx'.ret.start + 1))
        /\ CharAt(text, lx'.ret.start + 1) # 92)
            => LET after == lx'.ret.start + 1
                   c     == CharAt(text, after)
               IN  /\ errors' = Append(errors, Diag("InvalidCharacter", c, after,
                                                    after + Utf8Len(c)))
                   /\ offset(ptr') = after + Utf8Len(c)
                   /\ lx'.ret.kind = "Undetermined"
                   /\ lx'.ret.end = after + Utf8Len(c)
                   /\ ~panicked']_vars

\* `#` before a zero-width non-joiner, an identifier part of three bytes that
\* is no identifier start, behind an earlier token.
C14_Witness ==
    /\ lx.op = "next_token"
    /\ lx.ret.kind = "Undetermined"
    /\ lx.ret.start > 0
    /\ bytes[lx.ret.start + 1] = 35
    /\ errors # <<>>
    /\ errors[Len(errors)] =
            Diag("InvalidCharacter", 8204, lx.ret.start + 1, lx.ret.start + 4)
    /\ offset(ptr) = lx.ret.start + 4

\* C15: when next_token() comes to a `#` that is the last byte of the source,
\* private_identifier() records exactly one diagnostic, UnexpectedEnd with an
\* empty span at the end of the source, leaves the cursor where it was, behind
\* the `#`, and returns the kind Undetermined.
C15_HashAtEnd ==
    [][(/\ lx'.op = "next_token"
        /\ lookahead = <<>>
        /\ lx'.ret.start + 1 = Len(bytes)
        /\ bytes[lx'.ret.start + 1] = 35)
            => /\ errors' = Append(errors, Diag("UnexpectedEnd", None, Len(bytes),
                                                Len(bytes)))
               /\ offset(ptr') = Len(bytes)
               /\ lx'.ret.kind = "Undetermined"
               /\ lx'.ret.end = Len(bytes)
               /\ ~panicked']_vars

\* `#` ended a source that had raised an error before.
C15_Witness ==
    /\ lx.op = "next_token"
    /\ lx.ret.kind = "Undetermined"
    /\ lx.ret.start + 1 = Len(bytes)
    /\ bytes[Len(bytes)] = 35
    /\ Len(errors) = 2
    /\ errors[2] = Diag("UnexpectedEnd", None, Len(bytes), Len(bytes))
    /\ offset(ptr) = Len(bytes)

\* ============================================================ oxc_atom ====
\* An `Atom` is the array of its MAX_LEN_INLINE bytes: byte k of the Atom is
\* atom[k + 1].  A `usize` is the sequence of its 16-bit limbs, the least
\* significant first, so that no value of the word is out of reach.  A string
\* is [body, fill]: the bytes `body` followed by `fill` bytes  x ; either
\* `fill` is zero or `body` is empty, so equal strings are equal records.

\* `std::mem::size_of::<usize>()` of a 64-bit target
USIZE_SIZE == 8

LimbBase == 65536

NumLimbs == USIZE_SIZE \div 2

\* `n as usize` for n below 2^31
Usize(n) == [i \in 1..NumLimbs |-> IF i = 1 THEN n % LimbBase ELSE IF i = 2 THEN n \div LimbBase ELSE 0]

usize_MAX == [i \in 1..NumLimbs |-> LimbBase - 1]

\* u32::MAX
u32_MAX == [i \in 1..NumLimbs |-> IF i <= 2 THEN LimbBase - 1 ELSE 0]

\* `w as u32`: the low 32 bits of the word
AsU32(w) == [i \in 1..NumLimbs |-> IF i <= 2 THEN w[i] ELSE 0]

\* `a >> k` for k below 16
UShr(a, k) ==
    [i \in 1..NumLimbs |->
        (a[i] \div 2^k) + (IF i < NumLimbs THEN (a[i + 1] % 2^k) * 2^(16 - k) ELSE 0)]

\* `a & b` and `a | b` of two words
UAnd(a, b) == [i \in 1..NumLimbs |-> BitAnd(a[i], b[i])]

UOr(a, b) == [i \in 1..NumLimbs |-> BitOr(a[i], b[i])]

\* `a <= b`
RECURSIVE ULeFrom(_, _, _)
ULeFrom(a, b, i) ==
    IF i = 0 THEN TRUE
    ELSE IF a[i] # b[i] THEN a[i] < b[i]
    ELSE ULeFrom(a, b, i - 1)

ULe(a, b) == ULeFrom(a, b, NumLimbs)

\* `usize::to_le_bytes` and `usize::from_le_bytes`
to_le_bytes(w) ==
    [i \in 1..USIZE_SIZE |->
        IF i % 2 = 1 THEN w[(i + 1) \div 2] % 256 ELSE w[i \div 2] \div 256]

from_le_bytes(b) == [i \in 1..NumLimbs |-> b[2 * i - 1] + 256 * b[2 * i]]

\* `a << (nb * 8)`
UShlBytes(a, nb) ==
    from_le_bytes([i \in 1..USIZE_SIZE |-> IF i > nb THEN to_le_bytes(a)[i - nb] ELSE 0])

\* `w as u8`
AsU8(w) == w[1] % 256

\* `a.wrapping_sub(b)` of two u8
wrapping_sub(a, b) == (a - b + 256) % 256

MAX_LEN_INLINE == USIZE_SIZE * 2

FLAG_MASK == 224

MAX_LEN == UShr(usize_MAX, 3)

INLINE_FLAG == FLAG_MASK

HEAP_FLAG == 192

FLAG_MASK_USIZE == UShlBytes(Usize(FLAG_MASK), USIZE_SIZE - 1)

HEAP_FLAG_USIZE_three_bits == UShlBytes(Usize(FLAG_MASK), USIZE_SIZE - 1)

HEAP_FLAG_USIZE == UShlBytes(Usize(HEAP_FLAG), USIZE_SIZE - 1)

\* The byte every long string of the model is filled with:  x
FillByte == 120

Str(body, fill) == [body |-> body, fill |-> fill]

\* `str::len`
StrLen(s) == IF s.body # <<>> THEN Usize(Len(s.body)) ELSE s.fill

\* Byte i of a string, counted from 0.
StrByte(s, i) == IF i < Len(s.body) THEN s.body[i + 1] ELSE FillByte

\* A `&str`: the address of its first byte and its length.
StrRef(p, len) == [ptr |-> p, len |-> len]

\* Strings up to this length are written out byte by byte.
Explicit == 2 * MAX_LEN_INLINE

\* The string of len bytes  x .
Xs(len) ==
    IF ULe(len, Usize(Explicit)) THEN Str([i \in 1..len[1] |-> FillByte], Usize(0))
    ELSE Str(<<>>, len)

\* `slice::from_raw_parts(ptr, len)`: the len bytes at p, read through memory m.
\* Bytes beyond the string that lives at p, or at an address where no string
\* lives, belong to nobody: they read as Wild.
from_raw_parts(m, p, len) ==
    IF p \notin DOMAIN m THEN Wild
    ELSE IF ~ULe(len, StrLen(m[p])) THEN Wild
    ELSE IF m[p].body # <<>> THEN Str(SubSeq(m[p].body, 1, len[1]), Usize(0))
    ELSE Xs(len)

\* ---------------------------------------------------------------- buffers

\* A constructor gives the Atom it built, or gives none and panics.
Built(a) == [atom |-> a, panic |-> FALSE]

Panic == [atom |-> NoBytes, panic |-> TRUE]

InlineBuffer_new_length_last(m, s) ==
    [i \in 1..MAX_LEN_INLINE |->
        IF i = MAX_LEN_INLINE THEN BitOr(AsU8(s.len), INLINE_FLAG)
        ELSE IF i <= s.len[1] THEN StrByte(m[s.ptr], i - 1) ELSE 0]

\* `InlineBuffer::new(text)`: the buffer is zeroed, the flagged length goes into
\* its last byte, then the bytes of the string are copied over the front.
InlineBuffer_new(m, s) ==
    LET n == s.len[1]
        buffer == [i \in 1..MAX_LEN_INLINE |->
                      IF i = MAX_LEN_INLINE THEN BitOr(AsU8(s.len), INLINE_FLAG) ELSE 0]
    IN  [i \in 1..MAX_LEN_INLINE |-> IF i <= n THEN StrByte(m[s.ptr], i - 1) ELSE buffer[i]]

InlineBuffer_new_const_not_zeroed(m, s) ==
    IF ~ULe(s.len, Usize(MAX_LEN_INLINE)) THEN Panic
    ELSE Built([i \in 1..MAX_LEN_INLINE |->
                   IF i <= s.len[1] THEN StrByte(m[s.ptr], i - 1)
                   ELSE IF i = MAX_LEN_INLINE THEN BitOr(AsU8(s.len), INLINE_FLAG)
                   ELSE 170])

\* `InlineBuffer::new_const(text)`
InlineBuffer_new_const(m, s) ==
    IF ~ULe(s.len, Usize(MAX_LEN_INLINE)) THEN Panic
    ELSE LET n == s.len[1]
             buffer == [i \in 1..MAX_LEN_INLINE |->
                           IF i = MAX_LEN_INLINE THEN BitOr(AsU8(s.len), INLINE_FLAG) ELSE 0]
         IN  Built([i \in 1..MAX_LEN_INLINE |->
                       IF i <= n THEN StrByte(m[s.ptr], i - 1) ELSE buffer[i]])

\* The bytes of a pointer in the memory of a little-endian target.
PtrBytes(p) == to_le_bytes(Usize(p))

HeapBuffer_new_no_assert(s) ==
    Built(PtrBytes(s.ptr) \o to_le_bytes(UOr(s.len, HEAP_FLAG_USIZE)))

\* `HeapBuffer::new(text)`: { ptr, len }, the flag in the last byte of `len`.
HeapBuffer_new(s) ==
    IF ~ULe(s.len, MAX_LEN) THEN Panic
    ELSE Built(PtrBytes(s.ptr) \o to_le_bytes(UOr(s.len, HEAP_FLAG_USIZE)))

\* ------------------------------------------------------------------ Atom

\* `Atom::new_inline(text)`
new_inline(m, s) == InlineBuffer_new(m, s)

\* `Atom::new_heap(s)`
new_heap(s) == HeapBuffer_new(s)

\* `Atom::new(text)`
Atom_new(m, s) ==
    IF ULe(s.len, Usize(MAX_LEN_INLINE)) THEN Built(new_inline(m, s))
    ELSE new_heap(s)

\* `allocator.alloc_str(text)`: the string is copied to the address p of the
\* arena, which nothing lived at.
alloc_str(m, s, p) ==
    [m |-> [q \in DOMAIN m \cup {p} |-> IF q = p THEN from_raw_parts(m, s.ptr, s.len) ELSE m[q]],
     str |-> StrRef(p, s.len)]

Atom_new_in_borrows(m, s, p) == [m |-> m, ret |-> Atom_new(m, s)]

\* `Atom::new_in(text, allocator)`: the Atom, and the memory with its copy.
Atom_new_in(m, s, p) ==
    IF ULe(s.len, Usize(MAX_LEN_INLINE)) THEN [m |-> m, ret |-> Built(new_inline(m, s))]
    ELSE LET a == alloc_str(m, s, p) IN [m |-> a.m, ret |-> new_heap(a.str)]

\* `Atom::new_const(text)`
Atom_new_const(m, s) ==
    IF ULe(s.len, Usize(MAX_LEN_INLINE)) THEN InlineBuffer_new_const(m, s)
    ELSE HeapBuffer_new(s)

\* `self.last_byte`
last_byte(a) == a[MAX_LEN_INLINE]

\* `Atom::is_heap` and `Atom::is_inline`
is_heap(a) == BitAnd(last_byte(a), FLAG_MASK) = HEAP_FLAG

is_inline(a) == ~is_heap(a)

len_inline_no_min(a) == Usize(wrapping_sub(last_byte(a), INLINE_FLAG))

\* `Atom::len_inline`
len_inline(a) ==
    LET n == wrapping_sub(last_byte(a), INLINE_FLAG)
    IN  Usize(IF n < MAX_LEN_INLINE THEN n ELSE MAX_LEN_INLINE)

len_heap_keeps_flag(a) ==
    UAnd(from_le_bytes(SubSeq(a, USIZE_SIZE + 1, 2 * USIZE_SIZE)), UShr(usize_MAX, 1))

\* `Atom::len_heap`: the second word of the Atom, without the flag bits.
len_heap(a) == UAnd(from_le_bytes(SubSeq(a, USIZE_SIZE + 1, 2 * USIZE_SIZE)), MAX_LEN)

\* `Atom::len`
len(a) == IF is_heap(a) THEN len_heap(a) ELSE len_inline(a)

\* `Atom::is_empty`
is_empty(a) == last_byte(a) = INLINE_FLAG

\* The address in the first word of an out-of-line Atom.
heap_ptr(a) ==
    LET w == from_le_bytes(SubSeq(a, 1, USIZE_SIZE))
    IN  IF w[2] < LimbBase \div 2 /\ \A i \in 3..NumLimbs : w[i] = 0
        THEN w[1] + LimbBase * w[2] ELSE None

\* Where the Atom itself lives.
AtomAddr == 20480

\* `Atom::as_ptr`
as_ptr(a) == IF is_heap(a) THEN heap_ptr(a) ELSE AtomAddr

\* `Atom::as_slice` and `Atom::as_str`: the bytes of the Atom itself, or the
\* bytes its pointer leads to.
as_slice(m, a) ==
    IF is_heap(a) THEN from_raw_parts(m, heap_ptr(a), len_heap(a))
    ELSE Str(SubSeq(a, 1, len_inline(a)[1]), Usize(0))

as_str(m, a) == as_slice(m, a)

\* `impl PartialEq for Atom`
AtomEq(m, a, b) == as_str(m, a) = as_str(m, b)

\* `Atom::default()`
Atom_default == Atom_new_const(0 :> Str(<<>>, Usize(0)), StrRef(0, Usize(0)))

\* ---------------------------------------------------------------- base54

\* `a / d` and `a % d` for a divisor below 2^15, limb by limb from the top.
RECURSIVE UDivFrom(_, _, _, _, _)
UDivFrom(a, d, i, rem, q) ==
    IF i = 0 THEN [q |-> q, r |-> rem]
    ELSE LET cur == rem * LimbBase + a[i]
         IN  UDivFrom(a, d, i - 1, cur % d, [q EXCEPT ![i] = cur \div d])

UDivMod(a, d) == UDivFrom(a, d, NumLimbs, 0, Usize(0))

\* `a - 1` for a above zero
RECURSIVE UDecFrom(_, _)
UDecFrom(a, i) ==
    IF a[i] > 0 THEN [a EXCEPT ![i] = a[i] - 1]
    ELSE UDecFrom([a EXCEPT ![i] = LimbBase - 1], i + 1)

UDec(a) == UDecFrom(a, 1)

\* `a + 1` for a below usize::MAX
RECURSIVE UIncFrom(_, _)
UIncFrom(a, i) ==
    IF a[i] < LimbBase - 1 THEN [a EXCEPT ![i] = a[i] + 1]
    ELSE UIncFrom([a EXCEPT ![i] = 0], i + 1)

UInc(a) == UIncFrom(a, 1)

Range(lo, hi) == [i \in 1..(hi - lo + 1) |-> lo + i - 1]

BASE54_CHARS_swapped == Range(97, 122) \o Range(65, 90) \o <<95, 36>> \o Range(48, 57)

\* b"abcdefghijklmnopqrstuvwxyzABCDEFGHIJKLMNOPQRSTUVWXYZ$_0123456789"
BASE54_CHARS == Range(97, 122) \o Range(65, 90) \o <<36, 95>> \o Range(48, 57)

MAX_MANGLED_LEN == IF USIZE_SIZE = 8 THEN 11 ELSE 6

RECURSIVE base54_loop_base_32(_, _)
base54_loop_base_32(num, ret) ==
    IF num = Usize(0) THEN [ret |-> ret, panic |-> FALSE]
    ELSE IF Len(ret) >= MAX_MANGLED_LEN THEN [ret |-> ret, panic |-> TRUE]
    ELSE LET d == UDivMod(UDec(num), 32)
         IN  base54_loop_base_32(d.q, Append(ret, BASE54_CHARS[d.r + 1]))

RECURSIVE base54_loop_no_decrement(_, _)
base54_loop_no_decrement(num, ret) ==
    IF num = Usize(0) THEN [ret |-> ret, panic |-> FALSE]
    ELSE IF Len(ret) >= MAX_MANGLED_LEN THEN [ret |-> ret, panic |-> TRUE]
    ELSE LET d == UDivMod(num, 64)
         IN  base54_loop_no_decrement(d.q, Append(ret, BASE54_CHARS[d.r + 1]))

\* The loop of base54(): one more char for as long as `num > 0`.
RECURSIVE base54_loop(_, _)
base54_loop(num, ret) ==
    IF num = Usize(0) THEN [ret |-> ret, panic |-> FALSE]
    ELSE IF Len(ret) >= MAX_MANGLED_LEN THEN [ret |-> ret, panic |-> TRUE]
    ELSE LET d == UDivMod(UDec(num), 64)
         IN  base54_loop(d.q, Append(ret, BASE54_CHARS[d.r + 1]))

base54_first_of_64(n) ==
    LET d == UDivMod(n, 64)
        r == base54_loop(d.q, <<BASE54_CHARS[d.r + 1]>>)
    IN  IF r.panic THEN Panic
        ELSE Built(new_inline(0 :> Str(r.ret, Usize(0)), StrRef(0, Usize(Len(r.ret)))))

\* `Atom::base54(n)`
base54(n) ==
    LET d == UDivMod(n, 54)
        r == base54_loop(d.q, <<BASE54_CHARS[d.r + 1]>>)
    IN  IF r.panic THEN Panic
        ELSE Built(new_inline(0 :> Str(r.ret, Usize(0)), StrRef(0, Usize(Len(r.ret)))))

BASE64_CHARS_AND_NULL == BASE54_CHARS \o <<0>>

NULL_INDEX == Len(BASE64_CHARS_AND_NULL) - 1

\* The loop of base54_faster() without the `- 1` after the division.
RECURSIVE base54_faster_loop_no_decrement(_, _)
base54_faster_loop_no_decrement(num, indexes) ==
    IF ~ULe(Usize(64), num) THEN Append(indexes, num[1])
    ELSE LET d == UDivMod(num, 64)
         IN  base54_faster_loop_no_decrement(d.q, Append(indexes, d.r))

\* The loop of base54_faster(): the indexes of the chars after the first.
RECURSIVE base54_faster_loop(_, _)
base54_faster_loop(num, indexes) ==
    IF ~ULe(Usize(64), num) THEN Append(indexes, num[1])
    ELSE LET d == UDivMod(num, 64)
         IN  base54_faster_loop(UDec(d.q), Append(indexes, d.r))

\* `Atom::base54_faster(n)`
base54_faster(n) ==
    IF ~ULe(Usize(54), n)
    THEN Built([i \in 1..MAX_LEN_INLINE |->
                   IF i = 1 THEN BASE64_CHARS_AND_NULL[n[1] + 1]
                   ELSE IF i = MAX_LEN_INLINE THEN BitOr(1, INLINE_FLAG) ELSE 0])
    ELSE LET d == UDivMod(n, 54)
             filled == base54_faster_loop(UDec(d.q), <<d.r>>)
             indexes == [i \in 1..MAX_LEN_INLINE |->
                            IF i <= Len(filled) THEN filled[i] ELSE NULL_INDEX]
             chars == [i \in 1..MAX_LEN_INLINE |-> BASE64_CHARS_AND_NULL[indexes[i] + 1]]
         IN  Built([chars EXCEPT ![MAX_LEN_INLINE] = BitOr(Len(filled) % 256, INLINE_FLAG)])

\* ------------------------------------------------------- the Atom machine

\* Where the strings of the callers live, and where the arena puts its copies.
CallerAddrs == {4096, 8192}

ArenaAddrs == {12288, 16384}

\* The ends of the short strings:  nothing, U+0000, a, U+07FF.  The last byte
\* of U+07FF is the largest a string can end with.
Tails == {<<>>, <<0>>, <<97>>, <<223, 191>>}

\* The lengths of the strings written out byte by byte.
ShortLens ==
    {0, 1, 2, MAX_LEN_INLINE - 1} \cup MAX_LEN_INLINE..(MAX_LEN_INLINE + MaxOverInline)

\* The lengths of the long strings: 256 KiB, MAX_LEN, MAX_LEN + 1 and
\* isize::MAX, the longest string there is.
LongLens == {<<0, 4, 0, 0>>, MAX_LEN, <<0, 0, 0, 8192>>, UShr(usize_MAX, 1)}

AtomStrings ==
    {Str([i \in 1..(n - Len(t)) |-> FillByte] \o t, Usize(0)) :
        <<n, t>> \in {x \in ShortLens \X Tails : Len(x[2]) <= x[1]}}
    \cup {Str(<<>>, w) : w \in LongLens}

\* The arguments of base54: the first and the last of the one char names, the
\* first of the two and of the three char names, u32::MAX and usize::MAX.
Base54Args ==
    {Usize(0), Usize(53), Usize(54), Usize(3510), <<LimbBase - 1, LimbBase - 1, 0, 0>>, usize_MAX}

\* The Atom a constructor built, with the call: `from` is where the string of
\* the caller lives.
Made(r, via, s, n, p) ==
    [bytes |-> r.atom, text |-> s, n |-> n, via |-> via, panic |-> r.panic, from |-> p]

\* The address an Atom borrows from.
Borrowed(a) == IF a # NoBytes /\ is_heap(a) THEN {heap_ptr(a)} ELSE {}

Least(S) == CHOOSE x \in S : \A y \in S : x <= y

\* The memory m without the strings that live outside `kept`: their owners
\* dropped them.
Dropped(m, kept) == [q \in DOMAIN m \cap kept |-> m[q]]

\* The string the caller of new_in still owns: no Atom borrows it.
Owned(made) == IF made.via = "new_in" THEN {made.from} ELSE {}

\* The caller puts the string s where nothing borrowed lives.
WithString(m, live, s) ==
    LET p == Least(CallerAddrs \ UNION {Borrowed(a) : a \in live})
    IN  [m |-> [q \in (DOMAIN m \cap UNION {Borrowed(a) : a \in live}) \cup {p} |->
                   IF q = p THEN s ELSE m[q]],
         text |-> StrRef(p, StrLen(s))]

Keep(m, made) ==
    /\ other' = Lasting(atom)
    /\ atom' = made
    /\ mem' = Dropped(m, Borrowed(made.bytes) \cup Borrowed(atom.bytes) \cup Owned(made))
    /\ UNCHANGED <<text, bytes, start_ptr, beyond, ptr, srcVars, lexVars>>

\* let atom = Atom::new(&s);
New ==
    \E s \in AtomStrings :
        \E c \in {WithString(mem, {atom.bytes}, s)} :
            \E made \in {Made(Atom_new(c.m, c.text), "new", s, <<>>, c.text.ptr)} : Keep(c.m, made)

\* let atom = Atom::new_in(&s, &allocator);
NewIn ==
    \E s \in AtomStrings :
        \E c \in {WithString(mem, {atom.bytes}, s)} :
            \E r \in {Atom_new_in(c.m, c.text, Least(ArenaAddrs \ Borrowed(atom.bytes)))} :
                \E made \in {Made(r.ret, "new_in", s, <<>>, c.text.ptr)} : Keep(r.m, made)

\* const ATOM: Atom = Atom::new_const(S);
NewConst ==
    \E s \in AtomStrings :
        \E c \in {WithString(mem, {atom.bytes}, s)} :
            \E made \in {Made(Atom_new_const(c.m, c.text), "new_const", s, <<>>, c.text.ptr)} : Keep(c.m, made)

\* let atom = Atom::default();
Default ==
    \E made \in {Made(Atom_default, "default", Str(<<>>, Usize(0)), <<>>, None)} : Keep(mem, made)

\* let atom = Atom::base54(n);
Base54 ==
    \E n \in Base54Args :
        \E made \in {Made(base54(n), "base54", Wild, n, None)} : Keep(mem, made)

\* let atom = Atom::base54_faster(n);
Base54Faster ==
    \E n \in Base54Args :
        \E made \in {Made(base54_faster(n), "base54_faster", Wild, n, None)} : Keep(mem, made)

\* What the owner of a string can turn it into: one more byte (push), one byte
\* less (pop), another first byte.
Mutations(s) ==
    IF s.body = <<>> /\ s.fill # Usize(0)
    THEN {Xs(UInc(s.fill)), Xs(UDec(s.fill))}
    ELSE {Str(Append(s.body, 113), Usize(0))}
         \cup (IF s.body = <<>> THEN {}
               ELSE {Str(SubSeq(s.body, 1, Len(s.body) - 1), Usize(0)),
                     Str([s.body EXCEPT ![1] = 90], Usize(0))})

\* str.push('q'); and the like, on the string new_in() was given.
Mutate ==
    /\ atom.via = "new_in"
    /\ ~atom.panic
    /\ atom.from \in DOMAIN mem
    /\ mem[atom.from] = atom.text
    /\ \E s \in Mutations(atom.text) : mem' = [mem EXCEPT ![atom.from] = s]
    /\ UNCHANGED <<atom, other, text, bytes, start_ptr, beyond, ptr, srcVars, lexVars>>

\* drop(str); on the string new_in() was given.
DropOriginal ==
    /\ atom.via = "new_in"
    /\ ~atom.panic
    /\ atom.from \in DOMAIN mem
    /\ mem' = Dropped(mem, DOMAIN mem \ {atom.from})
    /\ UNCHANGED <<atom, other, text, bytes, start_ptr, beyond, ptr, srcVars, lexVars>>

AtomInit ==
    /\ LexerFields(<<>>)
    /\ pos = NoPos
    /\ last = Op("new", None, 0, None, FALSE)
    /\ fed = <<>>
    /\ AtomIdle

AtomNext ==
    \/ New
    \/ NewIn
    \/ NewConst
    \/ Default
    \/ Base54
    \/ Base54Faster
    \/ Mutate
    \/ DropOriginal

\* A program at work with Atoms: every constructor, on every string.
SpecAtom == AtomInit /\ [][AtomNext]_vars

\* ------------------------------------------------------------ the mangler

\* The counts the mangler starts from: 0, MaxRun below 2^32, and MaxRun below
\* usize::MAX.
MangleStarts ==
    {Usize(0),
     <<LimbBase - MaxRun, LimbBase - 1, 0, 0>>,
     <<LimbBase - 1 - MaxRun, LimbBase - 1, LimbBase - 1, LimbBase - 1>>}

\* The counts it stops at: MaxCount, MaxRun above 2^32, and usize::MAX.
MangleStops == {Usize(MaxCount), <<MaxRun, 0, 1, 0>>, usize_MAX}

\* let name = Atom::base54(count);  for the first binding
MangleFirst ==
    /\ atom.via = "none"
    /\ \E n \in MangleStarts :
           \E made \in {Made(base54(n), "base54", Wild, n, None)} : Keep(mem, made)

\* count += 1; let name = Atom::base54(count);
MangleNext ==
    /\ atom.via = "base54"
    /\ atom.n \notin MangleStops
    /\ \E made \in {Made(base54(UInc(atom.n)), "base54", Wild, UInc(atom.n), None)} :
           Keep(mem, made)

MangleStep == MangleFirst \/ MangleNext

\* A mangler that names one binding after the other.
SpecMangle == AtomInit /\ [][MangleStep]_vars

\* ------------------------------------------- the cursor over a long source
\* The source is a string [body, fill] and `ptr`, still an offset from `start`,
\* is a whole word, so that sources of 4 GiB and more are within reach.

\* `crate::MAX_LEN` of oxc_parser: the longest source that is parsed, u32::MAX
\* bytes, the most a Span's u32 offsets can address.
oxc_parser_MAX_LEN == u32_MAX

\* Source::new with the limit of an Atom, usize::MAX >> 3, for the limit.
LongSourceNew_atom_limit(s) ==
    [bytes |-> IF ~ULe(StrLen(s), MAX_LEN) THEN Str(<<0>>, Usize(0)) ELSE s,
     ptr |-> Usize(0)]

\* Source::new: a source longer than MAX_LEN gives way to "\0".
LongSourceNew(s) ==
    [bytes |-> IF ~ULe(StrLen(s), oxc_parser_MAX_LEN) THEN Str(<<0>>, Usize(0)) ELSE s,
     ptr |-> Usize(0)]

\* Source::offset: `(self.ptr as usize - self.start as usize) as u32`
LongOffset(p) == AsU32(p)

\* The byte at offset p of the source b.
LongByte(b, p) == IF b.body # <<>> THEN b.body[p[1] + 1] ELSE FillByte

\* `p - n` for n <= p
RECURSIVE USubSmall(_, _)
USubSmall(p, n) == IF n = 0 THEN p ELSE USubSmall(UDec(p), n - 1)

\* Source::set_offset
LongSetOffsetTo(b, p, o) ==
    IF ~ULe(o, StrLen(b)) THEN [ptr |-> p, panic |-> TRUE]
    ELSE IF o = StrLen(b) THEN [ptr |-> StrLen(b), panic |-> FALSE]
    ELSE IF is_utf8_cont_byte(LongByte(b, o)) THEN [ptr |-> p, panic |-> TRUE]
    ELSE [ptr |-> o, panic |-> FALSE]

\* Source::back
LongBackBy(b, p, n) ==
    IF n = 0 THEN [ptr |-> p, panic |-> TRUE]
    ELSE IF ~ULe(Usize(n), p) THEN [ptr |-> p, panic |-> TRUE]
    ELSE IF is_utf8_cont_byte(LongByte(b, USubSmall(p, n))) THEN [ptr |-> p, panic |-> TRUE]
    ELSE [ptr |-> USubSmall(p, n), panic |-> FALSE]

\* Source::next_char on a source of ASCII bytes
LongNextCharAt(b, p) ==
    IF p = StrLen(b) THEN [ch |-> None, ptr |-> p]
    ELSE [ch |-> LongByte(b, p), ptr |-> UInc(p)]

\* Lexer::next_token on a source of  x  bytes, or on "\0": the rest of the
\* source is one identifier, the byte 0 is an invalid character, the end of the
\* source is Eof.  The token's start is offset() before and its end is offset()
\* after.
LongToken(b, p) ==
    LET after == IF p = StrLen(b) THEN p
                 ELSE IF LongByte(b, p) = FillByte THEN StrLen(b)
                 ELSE UInc(p)
        kind  == IF p = StrLen(b) THEN "Eof"
                 ELSE IF LongByte(b, p) = FillByte THEN "Ident"
                 ELSE "Undetermined"
    IN  [ptr |-> after,
         token |-> [start |-> LongOffset(p), end |-> LongOffset(after), kind |-> kind,
                    is_on_new_line |-> FALSE, escaped |-> FALSE]]

\* The lengths of the sources: short ones, those either side of u32::MAX, and
\* the longest a `&str` can have, isize::MAX.
LongLengths ==
    {Usize(n) : n \in 0..MaxOver}
    \cup {USubSmall(u32_MAX, n) : n \in 0..MaxOver}
    \cup {USubSmall(<<MaxOver, 0, 1, 0>>, n) : n \in 0..(MaxOver - 1)}
    \cup {<<0, 0, 2, 0>>, MAX_LEN, UInc(MAX_LEN), UShr(usize_MAX, 1)}

\* The offsets set_offset() is called with: a u32 each.
LongOffsets ==
    {Usize(n) : n \in 0..MaxOver} \cup {USubSmall(u32_MAX, n) : n \in 0..MaxOver}

\* No position is held.
LongNoPos == [ptr |-> <<>>, offset |-> <<>>, remaining |-> <<>>]

LongInit ==
    /\ text \in {Xs(n) : n \in LongLengths}
    /\ bytes = LongSourceNew(text).bytes
    /\ OnHeap
    /\ ptr = LongSourceNew(text).ptr
    /\ pos = LongNoPos
    /\ last = Op("new", None, Usize(0), None, FALSE)
    /\ fed = <<>>
    /\ token = LexerNew.token
    /\ errors = LexerNew.errors
    /\ lookahead = LexerNew.lookahead
    /\ escaped_strings = LexerNew.escaped_strings
    /\ panicked = LexerNew.panic
    /\ outside = LexerNew.outside
    /\ context = LexerNew.context
    /\ cp = [held |-> NoCheckpoint, ptr |-> 0, token |-> NoToken, errors |-> <<>>]
    /\ lx = LexOp("new", 0, NoToken, 0, NoToken, NoCheckpoint, NoToken)
    /\ owed = <<>>
    /\ prevTok = NoToken
    /\ AtomIdle

\* `fed` has here one entry for every move next_char() and back(n) have made
\* since construction; there are at most MaxSrcChars of them.
LongFrame ==
    UNCHANGED <<text, bytes, start_ptr, beyond, errors, lookahead, escaped_strings, panicked, outside, context, cp,
                lx, owed, prevTok, atomVars>>

LongSetOffset ==
    \E o \in LongOffsets :
        \E r \in {LongSetOffsetTo(bytes, ptr, o)} :
            /\ ptr' = r.ptr
            /\ last' = Op("set_offset", None, ptr, None, r.panic)
            /\ UNCHANGED <<pos, token, fed>>
            /\ LongFrame

LongBack ==
    \E n \in 0..MaxOver :
        \E r \in {LongBackBy(bytes, ptr, n)} :
            /\ Len(fed) < MaxSrcChars
            /\ ptr' = r.ptr
            /\ fed' = Append(fed, 1)
            /\ last' = Op("back", None, ptr, None, r.panic)
            /\ UNCHANGED <<pos, token>>
            /\ LongFrame

LongNextChar ==
    \E r \in {LongNextCharAt(bytes, ptr)} :
        /\ Len(fed) < MaxSrcChars
        /\ ptr' = r.ptr
        /\ fed' = Append(fed, 1)
        /\ last' = Op("next_char", None, ptr, r.ch, FALSE)
        /\ UNCHANGED <<pos, token>>
        /\ LongFrame

LongPosition ==
    /\ pos' = [ptr |-> ptr, offset |-> LongOffset(ptr), remaining |-> <<>>]
    /\ last' = Op("position", None, ptr, None, FALSE)
    /\ UNCHANGED <<ptr, token, fed>>
    /\ LongFrame

LongSetPosition ==
    /\ pos # LongNoPos
    /\ ptr' = pos.ptr
    /\ last' = Op("set_position", None, ptr, None, FALSE)
    /\ UNCHANGED <<pos, token, fed>>
    /\ LongFrame

LongNextToken ==
    \E r \in {LongToken(bytes, ptr)} :
        /\ ptr' = r.ptr
        /\ token' = r.token
        /\ last' = Op("next_token", None, ptr, r.token.kind, FALSE)
        /\ UNCHANGED <<pos, fed>>
        /\ LongFrame

LongNext ==
    \/ LongSetOffset
    \/ LongBack
    \/ LongNextChar
    \/ LongPosition
    \/ LongSetPosition
    \/ LongNextToken

SpecLong == LongInit /\ [][LongNext]_vars

\* ------------------------------------------------- properties of the Atom

TheEmptyString == Str(<<>>, Usize(0))

ByText == {"new", "new_in", "new_const"}

\* C16: an Atom built by new, new_in or new_const from a string of at most
\* MAX_LEN_INLINE bytes, the empty string and the strings of exactly
\* MAX_LEN_INLINE bytes among them, is inline (is_inline() true, is_heap()
\* false) and its as_str() is the string; Atom::default() is the inline empty
\* string.
C16_ShortInline ==
    /\ (atom.via \in ByText /\ ULe(StrLen(atom.text), Usize(MAX_LEN_INLINE)))
        => /\ ~atom.panic
           /\ is_inline(atom.bytes)
           /\ ~is_heap(atom.bytes)
           /\ as_str(mem, atom.bytes) = atom.text
    /\ atom.via = "default"
        => /\ ~atom.panic
           /\ is_inline(atom.bytes)
           /\ ~is_heap(atom.bytes)
           /\ as_str(mem, atom.bytes) = TheEmptyString

\* Atom::new() was given a string of exactly MAX_LEN_INLINE bytes that ends
\* with the last byte of U+07FF, after an Atom of the empty string was built.
C16_Witness ==
    /\ atom.via = "new"
    /\ StrLen(atom.text) = Usize(MAX_LEN_INLINE)
    /\ atom.text.body[MAX_LEN_INLINE] = 191
    /\ as_str(mem, atom.bytes) = atom.text
    /\ other.text = TheEmptyString
    /\ is_empty(other.bytes)

\* C17: an Atom built by new, new_in or new_const from a string of more than
\* MAX_LEN_INLINE and at most MAX_LEN bytes is out-of-line (is_heap() true,
\* is_inline() false), its as_str() is the string and its len() the length of
\* the string: the flag 0b110 in the top 3 bits of the last byte of the
\* little-endian length leaves the length that is read back as it was.
C17_LongOutOfLine ==
    (/\ atom.via \in ByText
     /\ ~ULe(StrLen(atom.text), Usize(MAX_LEN_INLINE))
     /\ ULe(StrLen(atom.text), MAX_LEN))
    => /\ ~atom.panic
       /\ is_heap(atom.bytes)
       /\ ~is_inline(atom.bytes)
       /\ last_byte(atom.bytes) \div 32 = 6
       /\ as_str(mem, atom.bytes) = atom.text
       /\ len(atom.bytes) = StrLen(atom.text)

\* Atom::new_in() was given a string of MAX_LEN bytes: every bit of the length
\* below the flag is set, and the copy lives in the arena.
C17_Witness ==
    /\ atom.via = "new_in"
    /\ StrLen(atom.text) = MAX_LEN
    /\ last_byte(atom.bytes) = 223
    /\ heap_ptr(atom.bytes) \in ArenaAddrs
    /\ len(atom.bytes) = MAX_LEN

\* C18: the niche.  No Atom that new, new_in, new_const, default, base54 or
\* base54_faster built has the byte 0xFF in its last position.
C18_Niche ==
    (atom.via # "none" /\ ~atom.panic) => last_byte(atom.bytes) # 255

\* base54_faster() built the longest name there is, after an Atom of a string
\* of MAX_LEN bytes was built: the last bytes are 0xEB and 0xDF.
C18_Witness ==
    /\ atom.via = "base54_faster"
    /\ atom.n = usize_MAX
    /\ last_byte(atom.bytes) = 235
    /\ StrLen(other.text) = MAX_LEN
    /\ last_byte(other.bytes) = 223

\* The length of the name in an Atom of base54: its chars are not zero, the
\* bytes behind them are.
NameLen(a) == Cardinality({i \in 1..(MAX_LEN_INLINE - 1) : a[i] # 0})

\* C19: len() is the length in bytes of the string the Atom holds, in every
\* representation.  For an inline Atom of fewer than MAX_LEN_INLINE bytes it
\* is the low 5 bits of the last byte; for an inline Atom of exactly
\* MAX_LEN_INLINE bytes the last byte is below 192 and belongs to the string,
\* and the wrapping subtraction of INLINE_FLAG followed by min gives
\* MAX_LEN_INLINE.  is_empty() is true exactly when len() is 0.
C19_Len ==
    (atom.via # "none" /\ ~atom.panic)
    => /\ atom.via \in ByText \cup {"default"} => len(atom.bytes) = StrLen(atom.text)
       /\ atom.via \in {"base54", "base54_faster"} => len(atom.bytes) = Usize(NameLen(atom.bytes))
       /\ (/\ atom.via \in ByText
           /\ ULe(StrLen(atom.text), Usize(MAX_LEN_INLINE - 1)))
          => len(atom.bytes) = Usize(last_byte(atom.bytes) % 32)
       /\ (atom.via \in ByText /\ StrLen(atom.text) = Usize(MAX_LEN_INLINE))
          => /\ last_byte(atom.bytes) < 192
             /\ last_byte(atom.bytes) = atom.text.body[MAX_LEN_INLINE]
             /\ wrapping_sub(last_byte(atom.bytes), INLINE_FLAG) >= MAX_LEN_INLINE
             /\ len(atom.bytes) = Usize(MAX_LEN_INLINE)
       /\ is_empty(atom.bytes) <=> len(atom.bytes) = Usize(0)

\* Atom::new_const() was given a string of exactly MAX_LEN_INLINE bytes that
\* ends with U+0000, after an Atom of the empty string was built.
C19_Witness ==
    /\ atom.via = "new_const"
    /\ StrLen(atom.text) = Usize(MAX_LEN_INLINE)
    /\ last_byte(atom.bytes) = 0
    /\ len(atom.bytes) = Usize(MAX_LEN_INLINE)
    /\ ~is_empty(atom.bytes)
    /\ other.text = TheEmptyString
    /\ is_empty(other.bytes)

\* An Atom that new, new_in, new_const or default built from a string.
OfString(made) == made.bytes # NoBytes /\ made.text # Wild

IsShort(s) == ULe(StrLen(s), Usize(MAX_LEN_INLINE))

\* C20: the representation is canonical.  A string of at most MAX_LEN_INLINE
\* bytes is stored inline with every unused byte zero; two Atoms built from
\* equal short strings are bitwise identical; two inline Atoms that are
\* bitwise identical hold equal strings; and two Atoms are equal exactly when
\* their strings are, whatever their representations and wherever the
\* out-of-line bytes live.
C20_Canonical ==
    /\ (OfString(atom) /\ IsShort(atom.text))
        => /\ is_inline(atom.bytes)
           /\ \A i \in 1..(MAX_LEN_INLINE - 1) :
                  i > StrLen(atom.text)[1] => atom.bytes[i] = 0
    /\ (OfString(atom) /\ OfString(other))
        => /\ (IsShort(atom.text) /\ atom.text = other.text) => atom.bytes = other.bytes
           /\ (is_inline(atom.bytes) /\ is_inline(other.bytes) /\ atom.bytes = other.bytes)
              => /\ atom.text = other.text
                 /\ as_str(mem, atom.bytes) = as_str(mem, other.bytes)
           /\ AtomEq(mem, atom.bytes, other.bytes) <=> atom.text = other.text

\* Atom::new_in() copied into the arena a string of more than MAX_LEN_INLINE
\* bytes that an out-of-line Atom borrows from its caller: the two Atoms are
\* equal and their pointers differ.
C20_Witness ==
    /\ atom.via = "new_in"
    /\ OfString(atom)
    /\ OfString(other)
    /\ ~IsShort(atom.text)
    /\ atom.text = other.text
    /\ heap_ptr(atom.bytes) \in ArenaAddrs
    /\ heap_ptr(other.bytes) \in CallerAddrs
    /\ atom.bytes # other.bytes
    /\ AtomEq(mem, atom.bytes, other.bytes)

\* C21: new, new_in and new_const panic on a string of more than MAX_LEN =
\* usize::MAX >> 3 bytes and build no Atom, so no Atom has length bits under
\* the 3 flag bits; MAX_LEN is the largest length whose bits stay clear of the
\* flag bits.
C21_TooLongPanics ==
    /\ MAX_LEN = UShr(usize_MAX, 3)
    /\ UAnd(MAX_LEN, FLAG_MASK_USIZE) = Usize(0)
    /\ UAnd(UInc(MAX_LEN), FLAG_MASK_USIZE) # Usize(0)
    /\ atom.via \in ByText
        => /\ ~ULe(StrLen(atom.text), MAX_LEN) => (atom.panic /\ atom.bytes = NoBytes)
           /\ ~atom.panic
              => /\ ULe(StrLen(atom.text), MAX_LEN)
                 /\ UAnd(StrLen(atom.text), FLAG_MASK_USIZE) = Usize(0)
                 /\ len(atom.bytes) = StrLen(atom.text)

\* Atom::new_in() was given a string of MAX_LEN + 1 bytes and panicked, after
\* an Atom of a string of MAX_LEN bytes was built.
C21_Witness ==
    /\ atom.via = "new_in"
    /\ StrLen(atom.text) = UInc(MAX_LEN)
    /\ atom.panic
    /\ atom.bytes = NoBytes
    /\ StrLen(other.text) = MAX_LEN
    /\ other.bytes # NoBytes

\* C22: an Atom built by new_in keeps the string it was given, whatever its
\* owner does to the original afterwards (mutation, drop): a short string was
\* copied into the Atom and a long one into the arena.  An Atom built by new
\* from a long string points at the bytes of the caller: as_ptr() is the
\* pointer of the argument.
C22_NewInCopies ==
    /\ (atom.via = "new_in" /\ ~atom.panic)
        => /\ as_str(mem, atom.bytes) = atom.text
           /\ as_ptr(atom.bytes) # atom.from
           /\ IsShort(atom.text) => as_ptr(atom.bytes) = AtomAddr
           /\ ~IsShort(atom.text) => as_ptr(atom.bytes) \in ArenaAddrs
    /\ OfString(other) => as_str(mem, other.bytes) = other.text
    /\ (atom.via = "new" /\ ~atom.panic /\ ~IsShort(atom.text))
        => /\ as_ptr(atom.bytes) = atom.from
           /\ mem[atom.from] = atom.text

\* The first byte of a string of more than MAX_LEN_INLINE bytes was overwritten
\* after Atom::new_in() was given the string.
C22_Witness ==
    /\ atom.via = "new_in"
    /\ ~atom.panic
    /\ ~IsShort(atom.text)
    /\ atom.from \in DOMAIN mem
    /\ StrLen(mem[atom.from]) = StrLen(atom.text)
    /\ mem[atom.from] # atom.text
    /\ as_str(mem, atom.bytes) = atom.text

\* ---------------------------------------------- properties of the mangler

\* The name in an Atom of base54, as its chars.
NameOf(a) == as_str(mem, a).body

\* C23 as it was stated: base54(53) is "$".
C23_Dollar ==
    (atom.via = "base54" /\ atom.n = Usize(53)) => NameOf(atom.bytes) = <<36>>

\* C23: base54(53) is "_", the 54th identifier-start character.
C23_Underscore ==
    (atom.via = "base54" /\ atom.n = Usize(53))
        => /\ ~atom.panic
           /\ NameOf(atom.bytes) = <<95>>
           /\ BASE54_CHARS[54] = 95

\* The mangler named its 54th binding, after its 53rd: "$".
C23_Witness ==
    /\ atom.via = "base54"
    /\ atom.n = Usize(53)
    /\ NameOf(atom.bytes) = <<BASE54_CHARS[54]>>
    /\ NameOf(other.bytes) = <<36>>

\* `a * k + c` for k and c below 2^15, limb by limb from the bottom.
RECURSIVE UMulAddFrom(_, _, _, _)
UMulAddFrom(a, k, carry, i) ==
    IF i > NumLimbs THEN a
    ELSE UMulAddFrom([a EXCEPT ![i] = (a[i] * k + carry) % LimbBase], k,
                     (a[i] * k + carry) \div LimbBase, i + 1)

UMulAdd(a, k, c) == UMulAddFrom(a, k, c, 1)

\* The place of the char c in the alphabet, from 0.
IndexIn(c) == (CHOOSE i \in 1..Len(BASE54_CHARS) : BASE54_CHARS[i] = c) - 1

\* The count a name stands for: the first char is a digit of base 54, every
\* later char a digit of base 64 that counts from 1.
RECURSIVE DecodeTail(_)
DecodeTail(cs) ==
    IF cs = <<>> THEN Usize(0)
    ELSE UMulAdd(DecodeTail(Tail(cs)), 64, 1 + IndexIn(Head(cs)))

Decode(name) == UMulAdd(DecodeTail(Tail(name)), 54, IndexIn(name[1]))

FirstChars == {BASE54_CHARS[i] : i \in 1..54}

LaterChars == {BASE54_CHARS[i] : i \in 1..64}

\* The name base54 gives the count k.
NameFor(k) == as_str(<<>>, base54(Usize(k)).atom).body

\* C24: base54 skips no name and repeats none.  It is injective (each name
\* stands for the count it was made from and differs from the name before
\* it), the length of the name never shrinks as the count grows, the 54 names
\* of one char are exactly base54(0..53) and the 54 * 64 names of two chars
\* exactly base54(54..54 + 54 * 64 - 1); base54(0) is "a" and base54(54) is
\* "aa".
C24_NoSkipNoRepeat ==
    (atom.via = "base54" /\ ~atom.panic)
    => /\ Decode(NameOf(atom.bytes)) = atom.n
       /\ other.bytes # NoBytes
          => /\ Len(NameOf(other.bytes)) <= Len(NameOf(atom.bytes))
             /\ NameOf(other.bytes) # NameOf(atom.bytes)
             /\ UInc(Decode(NameOf(other.bytes))) = atom.n
       /\ ULe(atom.n, Usize(53)) <=> Len(NameOf(atom.bytes)) = 1
       /\ (ULe(Usize(54), atom.n) /\ ULe(atom.n, Usize(54 + 54 * 64 - 1)))
          <=> Len(NameOf(atom.bytes)) = 2
       /\ atom.n = Usize(0) => NameOf(atom.bytes) = <<97>>
       /\ atom.n = Usize(54) => NameOf(atom.bytes) = <<97, 97>>
       /\ atom.n = Usize(54 + 54 * 64 - 1)
          => /\ {NameFor(k) : k \in 0..53} = {<<c>> : c \in FirstChars}
             /\ {NameFor(k) : k \in 54..(54 + 54 * 64 - 1)}
                    = {<<c, d>> : c \in FirstChars, d \in LaterChars}

\* The mangler named binding 54 + 54 * 64: the first name of three chars, after
\* the last of two.
C24_Witness ==
    /\ atom.via = "base54"
    /\ atom.n = Usize(54 + 54 * 64)
    /\ NameOf(atom.bytes) = <<97, 97, 97>>
    /\ NameOf(other.bytes) = <<95, 57>>

\* C25: for every n the name base54(n) is a legal JavaScript identifier: it
\* is not empty, its first char is one of [a-zA-Z$_] and every later char one
\* of [a-zA-Z$_0-9].
C25_LegalIdentifier ==
    atom.via = "base54"
    => /\ ~atom.panic
       /\ Len(NameOf(atom.bytes)) >= 1
       /\ NameOf(atom.bytes)[1] \in FirstChars
       /\ is_identifier_start_ascii_byte(NameOf(atom.bytes)[1])
       /\ \A i \in 2..Len(NameOf(atom.bytes)) :
              /\ NameOf(atom.bytes)[i] \in LaterChars
              /\ is_identifier_part_ascii_byte(NameOf(atom.bytes)[i])

\* The mangler named binding usize::MAX - 1: "YrN6rN6rN6r", a name with digits
\* behind its first char.
C25_Witness ==
    /\ atom.via = "base54"
    /\ atom.n = UDec(usize_MAX)
    /\ NameOf(atom.bytes)[1] = 89
    /\ NameOf(atom.bytes)[4] = 54
    /\ Len(NameOf(atom.bytes)) = 11

\* C26: for every n of the platform word the name base54(n) has at most
\* MAX_MANGLED_LEN bytes, 11 on a 64-bit target and 6 on a 32-bit one, so no
\* write into the buffer of MAX_MANGLED_LEN bytes is out of bounds and the Atom
\* is always inline.
C26_FitsBuffer ==
    atom.via = "base54"
    => /\ ~atom.panic
       /\ Len(NameOf(atom.bytes)) <= MAX_MANGLED_LEN
       /\ MAX_MANGLED_LEN = 11
       /\ MAX_MANGLED_LEN <= MAX_LEN_INLINE
       /\ ULe(atom.n, u32_MAX) => Len(NameOf(atom.bytes)) <= 6
       /\ atom.n = u32_MAX => Len(NameOf(atom.bytes)) = 6
       /\ atom.n = usize_MAX => Len(NameOf(atom.bytes)) = 11
       /\ is_inline(atom.bytes)
       /\ len(atom.bytes) = Usize(Len(NameOf(atom.bytes)))

\* The mangler named binding usize::MAX: "ZrN6rN6rN6r", 11 chars.
C26_Witness ==
    /\ atom.via = "base54"
    /\ atom.n = usize_MAX
    /\ NameOf(atom.bytes) = <<90, 114, 78, 54, 114, 78, 54, 114, 78, 54, 114>>
    /\ is_inline(atom.bytes)
    /\ Len(NameOf(other.bytes)) = MAX_MANGLED_LEN

\* ----------------------------------------- properties of the lookahead queue

\* C27: the lookahead queue never holds more than four checkpoints in any state
\* reachable by next_token, lookahead(n) with 1 <= n <= 4, checkpoint, rewind
\* and re-lex, and its entries are in source order: each entry's recorded
\* position is at or after the previous entry's.
C27_QueueBounded ==
    /\ Len(lookahead) <= 4
    /\ \A i \in 1..(Len(lookahead) - 1) :
           lookahead[i].position <= lookahead[i + 1].position

\* lookahead(4) filled the queue with four checkpoints, the first three at
\* different positions and the last at the end of the source.
C27_Witness ==
    /\ lx.op = "lookahead"
    /\ lx.n = 4
    /\ Len(lookahead) = 4
    /\ lookahead[1].position < lookahead[2].position
    /\ lookahead[2].position < lookahead[3].position
    /\ lookahead[4].token.kind = "Eof"

\* The errors `now` are the errors `before` and possibly more.
Retained(before, now) ==
    /\ Len(before) <= Len(now)
    /\ SubSeq(now, 1, Len(before)) = before

\* C28: the errors collected while lookahead(n) lexes tokens are retained: they
\* are in errors when lookahead returns (the queue entry pushed last records
\* their number) and stay there while next_token() consumes the peeked tokens,
\* and consuming a queued token adds no error; only a rewind to a checkpoint
\* taken when errors was shorter removes errors, by truncating to the length
\* the checkpoint recorded.
C28_ErrorsRetained ==
    [][/\ lx'.op = "lookahead"
          => /\ Retained(errors, errors')
             /\ \A i \in 1..Len(lookahead') : lookahead'[i].errors_pos <= Len(errors')
             /\ Len(lookahead') > Len(lookahead)
                => lookahead'[Len(lookahead')].errors_pos = Len(errors')
       /\ lx'.op = "next_token"
          => /\ Retained(errors, errors')
             /\ lookahead # <<>> => errors' = errors
       /\ ~Retained(errors, errors')
          => /\ lx'.op = "rewind"
             /\ cp.held.errors_pos < Len(errors)
             /\ errors' = SubSeq(errors, 1, cp.held.errors_pos)]_vars

\* next_token() has consumed the first token of the source, which lookahead()
\* had lexed with an error; the error is still there.
C28_Witness ==
    /\ lx.op = "next_token"
    /\ lx.due # NoCheckpoint
    /\ lx.due.token.start = 0
    /\ lx.due.errors_pos = 1
    /\ lx.ret = lx.due.token
    /\ Len(errors) = 1
    /\ cp.held = NoCheckpoint

\* ------------------------------------------ properties of the long source

IsPartAt(q) ==
    IF is_ascii(bytes[q + 1]) THEN is_identifier_part_ascii_byte(bytes[q + 1])
    ELSE is_identifier_part_unicode(next_code_point(bytes, q).ch)

\* The identifier stops at offset q: the end of the source, or the first byte
\* of a char that is no identifier part.
StopsAt(q) ==
    \/ q = Len(bytes)
    \/ /\ ~is_utf8_cont_byte(bytes[q + 1])
       /\ ~IsPartAt(q)

\* The width in bytes of the char whose first byte is b.
CharWidth(b) == IF b < 128 THEN 1 ELSE IF b < 224 THEN 2 ELSE IF b < 240 THEN 3 ELSE 4

\* The byte just past the identifier whose first char is at offset p: the
\* first offset after that char where the identifier stops.
JustPast(p) ==
    CHOOSE q \in (p + CharWidth(bytes[p + 1]))..Len(bytes) :
        /\ StopsAt(q)
        /\ \A r \in (p + CharWidth(bytes[p + 1]))..(q - 1) : ~StopsAt(r)

\* C30: while the scanner scans an identifier that contains no escape it reads
\* ahead through the iterator and leaves the cursor where the scan started;
\* the cursor moves in one step only, the one that finds the end of the
\* identifier or of the source, and moves there to the byte just past the
\* identifier, where identifier_tail_after_no_escape as a whole leaves it.
C30_CursorMovesOnce ==
    [][/\ Scanning' => /\ ptr' = last'.pre
                       /\ last'.arg > ptr'
       /\ Scanning /\ Scanning' => ptr' = ptr
       /\ Scanning /\ last'.op = "end"
          => /\ ptr = last.pre
             /\ ptr' = JustPast(last.pre)
             /\ ptr' = last.arg
             /\ ptr' > ptr
             /\ ptr' = identifier_tail_after_no_escape(
                           LexState, bytes_next_char(last.pre).bp).ptr
             /\ panicked' = panicked]_vars

\* The scan of an identifier of four bytes, not all of them ASCII, has found
\* the end of the identifier before the end of the source.
C30_Witness ==
    /\ last.op = "end"
    /\ ptr = last.pre + 4
    /\ ptr < Len(bytes)
    /\ ~panicked
    /\ \E q \in (last.pre + 1)..(ptr - 1) : ~is_ascii(bytes[q + 1])

\* The scan is on the first byte of a char that is not ASCII.
OnUnicode == Scanning /\ last.arg < Len(bytes) /\ ~is_ascii(bytes[last.arg + 1])

\* C31: a multi-byte char met inside an identifier is consumed if and only if
\* it is an identifier part; the scan then goes on over ASCII and multi-byte
\* identifier parts alike, and stops at the first char that is no identifier
\* part, with the cursor on the first byte of that char and never inside a
\* char, or at a backslash, where the escape path takes over.
C31_UnicodePath ==
    [][/\ OnUnicode /\ IsPartAt(last.arg)
          => /\ last'.op = "until"
             /\ last'.arg = last.arg + CharWidth(bytes[last.arg + 1])
             /\ ptr' = ptr
       /\ OnUnicode /\ ~IsPartAt(last.arg)
          => /\ last'.op = "end"
             /\ ptr' = last.arg
       /\ Scanning /\ last.op = "until" /\ last.arg < Len(bytes)
             /\ is_identifier_part_ascii_byte(bytes[last.arg + 1])
          => /\ last'.op = "until"
             /\ last'.arg = last.arg + 1
       /\ Scanning /\ bytes_peek(last.arg) = 92 => last'.op = "escape"
       /\ Scanning /\ last'.op = "end"
          => /\ StopsAt(ptr')
             /\ ptr' = JustPast(last.pre)
             /\ bytes_is_on_utf8_char_boundary(ptr')
             /\ ~panicked'
       /\ Scanning => bytes_is_on_utf8_char_boundary(last.arg)]_vars

\* An identifier with a multi-byte identifier part in it has ended on a
\* multi-byte char that is no identifier part.
C31_Witness ==
    /\ last.op = "end"
    /\ ptr < Len(bytes)
    /\ ~is_ascii(bytes[ptr + 1])
    /\ ~IsPartAt(ptr)
    /\ is_ascii(bytes[last.pre + 1])
    /\ \E q \in (last.pre + 1)..(ptr - 1) : ~is_ascii(bytes[q + 1])

\* ------------------------------------------ properties of is_on_new_line

\* next_token() has returned the first token of the source: the cursor was at
\* the start, no token was returned before and the lexer was never rewound.
FirstToken ==
    /\ lx.op = "next_token"
    /\ lx.pre = 0
    /\ lx.prev = NoToken
    /\ cp.held = NoCheckpoint

\* A line break lies between offsets a and b of the source.
LineBreakBetween(a, b) == \E i \in (a + 1)..b : bytes[i] \in {10, 13}

\* C32: the first token produced for any source has is_on_new_line = true,
\* whether next_token() on a fresh lexer returns it or lookahead(1) on a fresh
\* lexer followed by next_token(); and no later token has the flag without a
\* line break skipped between the token before it and it.
C32_FirstOnNewLine ==
    /\ FirstToken => lx.ret.is_on_new_line
    /\ lx.op = "next_token" /\ lx.prev # NoToken /\ lx.ret.is_on_new_line
       => LineBreakBetween(lx.prev.end, lx.ret.start)

\* ------------------------------------------------ properties of whitespace

\* The offset after the blanks and line breaks that begin at offset p.
AfterWhitespace(p) ==
    CHOOSE q \in p..Len(bytes) :
        /\ q = Len(bytes) \/ bytes[q + 1] \notin {32, 9, 10, 13}
        /\ \A r \in p..(q - 1) : bytes[r + 1] \in {32, 9, 10, 13}

\* The token tok was lexed with the cursor at offset p: it is no Skip, it
\* starts after the whitespace at p, and it is on a new line when a line break
\* is in that whitespace.
LexedFrom(tok, p) ==
    /\ tok.kind # "Skip"
    /\ tok.start = AfterWhitespace(p)
    /\ LineBreakBetween(p, tok.start) => tok.is_on_new_line

\* C33: whitespace and line breaks never surface as tokens: next_token() and
\* lookahead() never return a token of kind Skip, the start of the token they
\* return is the offset after all the whitespace skipped, and the token has
\* is_on_new_line = true when a line break was skipped between the token
\* before it and it.
C33_NoSkipToken ==
    /\ lx.op \in {"next_token", "lookahead"} => lx.ret.kind # "Skip"
    /\ lx.op = "next_token" /\ lx.due = NoCheckpoint => LexedFrom(lx.ret, lx.pre)
    /\ lx.op = "next_token" /\ lx.due # NoCheckpoint => lx.ret = lx.due.token
    /\ \A i \in 1..Len(lookahead) :
           LexedFrom(lookahead[i].token,
                     IF i = 1 THEN ptr ELSE lookahead[i - 1].position)

\* next_token() has skipped a line break after the first word and returned
\* the second word, on a new line.
C33_Witness ==
    /\ lx.op = "next_token"
    /\ lx.due = NoCheckpoint
    /\ lx.prev.kind = "Ident"
    /\ lx.prev.end = lx.pre
    /\ lx.ret.kind = "Ident"
    /\ lx.ret.start = lx.pre + 1
    /\ bytes[lx.pre + 1] \in {10, 13}
    /\ lx.ret.is_on_new_line

\* ------------------------------------------- properties of lazy lookahead

\* C34: lookahead is lazy and idempotent.  When the queue holds n entries or
\* more, lookahead(n) returns the token of entry n and lexes nothing: cursor,
\* current token, queue and errors are as before.  When it holds m < n entries,
\* lookahead(n) lexes the tokens m + 1 .. n only, from the position entry m
\* recorded, and the first m entries stay as they are.
C34_LazyLookahead ==
    [][lx'.op = "lookahead"
       => /\ ptr' = ptr
          /\ token' = token
          /\ lx'.ret = lookahead'[lx'.n].token
          /\ Len(lookahead) >= lx'.n
             => /\ lookahead' = lookahead
                /\ errors' = errors
                /\ escaped_strings' = escaped_strings
          /\ Len(lookahead) < lx'.n
             => /\ Len(lookahead') = lx'.n
                /\ SubSeq(lookahead', 1, Len(lookahead)) = lookahead
                /\ Retained(errors, errors')
                /\ lookahead'[Len(lookahead) + 1].token.start
                      = AfterWhitespace(IF lookahead = <<>> THEN ptr
                                        ELSE lookahead[Len(lookahead)].position)]_vars

\* lookahead(2) on a queue of four tokens has returned the second of them.
C34_Witness ==
    /\ lx.op = "lookahead"
    /\ lx.n = 2
    /\ Len(lookahead) = 4
    /\ lx.ret = lookahead[2].token
    /\ lookahead[1].token.kind = "Ident"
    /\ lookahead[2].token.start > lookahead[1].position
    /\ lookahead[3].token.start >= lookahead[2].position

\* ------------------------------------------------ properties of diagnostics

\* C35: along any sequence of lookahead, next_token, checkpoint and rewind
\* calls the diagnostics raised by lexing a given token are in errors at most
\* once: no two entries of errors are the same diagnostic with the same span.
C35_ErrorsOnce ==
    \A i \in 1..Len(errors) : \A j \in 1..Len(errors) : i # j => errors[i] # errors[j]

\* ----------------------------------------------- properties of the context

\* The token next_token() lexes from the cursor under the context of now.
LexedNow == lexer_next_token([LexState EXCEPT !.lookahead = <<>>]).token

\* C36: every token next_token() returns was lexed under the LexerContext that
\* is current at the time of the call: it has the kind, the start and the end
\* lexing from the cursor under that context gives, also when set_context(c)
\* was called while the lookahead queue held tokens.
C36_LexedUnderContext ==
    [][lx'.op = "next_token"
       => /\ lx'.ret.kind = LexedNow.kind
          /\ lx'.ret.start = LexedNow.start
          /\ lx'.ret.end = LexedNow.end]_vars

\* ------------------------------------ properties of the reads of the scanner

\* C37: the batched scan of identifier_name_handler reads no byte at or after
\* `end`, whatever the length of the source and wherever it lies in memory,
\* also when its end address is below BATCH_SIZE; nor does the byte-by-byte
\* scan that takes over when fewer than BATCH_SIZE bytes remain.
C37_ReadsInside == ~outside

\* ------------------------- the batched scan against the byte-by-byte scan

\* The lexer as identifier_name_handler finds it when next_token() has set
\* the start of the token.
AtHandler == [LexState EXCEPT !.token.start = lexer_offset(LexState)]

\* The scan of the identifier at the cursor one byte at a time, with the test
\* for the end of the source before every read.
ByteByByte == identifier_name_handler_unbatched(AtHandler, ptr + 1)

C38_WitnessBackslash ==
    /\ lx.op = "identifier_name"
    /\ lx.pre = 0
    /\ RunEnd(0) = BATCH_SIZE + 1
    /\ Len(bytes) > BATCH_SIZE + 1
    /\ bytes[BATCH_SIZE + 2] = 92
    /\ lx.ret.escaped
    /\ ptr = Len(bytes)

\* -------------------------------------------------- properties of BytesIter

\* The next byte of the iterator it is a continuation byte.
OnContinuation(it) == it < Len(bytes) /\ bytes[it + 1] \in 128..191

Exhausted(it) == it >= Len(bytes)

\* What C40 says of as_str() and chars(), of where next_char() leaves the
\* iterator, and of peek() and peek_char().
BytesIterGuarded ==
    /\ last.op = "as_str"
         => /\ ~last.ret.some <=> OnContinuation(last.pre)
            /\ last.ret.some => last.ret.str = SubSeq(bytes, last.pre + 1, Len(bytes))
    /\ last.op = "chars"
         => /\ ~last.ret.some <=> OnContinuation(last.pre)
            /\ last.ret.some => last.ret.chars = last.pre
    /\ last.op \in {"as_str", "chars"} /\ Exhausted(last.pre) => last.ret.some
    /\ last.op = "next_char" /\ last.ret # None
         => /\ last.arg = last.pre + Utf8Len(last.ret)
            /\ last.ret = CharAt(text, last.pre)
    /\ last.op \in {"peek", "peek_char"} => last.arg = last.pre

\* C40 as stated: as_str(), chars(), peek_char() and next_char() return None
\* exactly when the next byte of the iterator is a continuation byte; an
\* exhausted iterator is on a boundary; next_char() moves the iterator on by
\* the UTF-8 length of the char it returns; peek() and peek_char() do not
\* move it.
C40_NoneOnContinuation ==
    /\ BytesIterGuarded
    /\ last.op \in {"peek_char", "next_char"}
         => (last.ret = None <=> OnContinuation(last.pre))

\* C40, amended: as above, but peek_char() and next_char() return None exactly
\* when the next byte of the iterator is a continuation byte or the iterator
\* is exhausted.
C40_NoneOnContinuationOrEnd ==
    /\ BytesIterGuarded
    /\ last.op \in {"peek_char", "next_char"}
         => (last.ret = None <=> (OnContinuation(last.pre) \/ Exhausted(last.pre)))

\* next() has left the iterator inside a char of three bytes or more, and
\* peek_char() returned None there.
C40_Witness ==
    /\ last.op = "peek_char"
    /\ last.ret = None
    /\ OnContinuation(last.pre)
    /\ last.pre + 1 < Len(bytes)
    /\ OnContinuation(last.pre + 1)

\* ------------------------------------------- base54_faster against base54

\* The indexes base54_faster(n) writes with get_unchecked_mut, and indexes[0]
\* before them: entry k is the write at index k - 1.
FasterIndexes(n) ==
    IF ~ULe(Usize(54), n) THEN <<n[1]>>
    ELSE Bind(UDivMod(n, 54), LAMBDA d : base54_faster_loop(UDec(d.q), <<d.r>>))

\* C39: for every n, base54_faster(n) is byte for byte the Atom base54(n): the
\* same name, zero in the bytes the name leaves, the length of the name with
\* INLINE_FLAG in the last byte; and the indexes base54_faster writes
\* unchecked stay below MAX_LEN_INLINE - 1, so the name never takes the last
\* byte.
C39_FasterAgrees ==
    (atom.via = "base54" /\ ~atom.panic)
    => \E f \in {base54_faster(atom.n)} :
       \E k \in {Len(NameOf(atom.bytes))} :
          /\ ~f.panic
          /\ f.atom = atom.bytes
          /\ as_str(mem, f.atom) = as_str(mem, atom.bytes)
          /\ \A i \in (k + 1)..(MAX_LEN_INLINE - 1) : f.atom[i] = 0
          /\ f.atom[MAX_LEN_INLINE] = BitOr(k, INLINE_FLAG)
          /\ Len(FasterIndexes(atom.n)) = k
          /\ k < MAX_LEN_INLINE

\* The mangler has come to u32::MAX: a name of six chars, five of them written
\* by the loop of base54_faster.
C39_Witness ==
    /\ atom.via = "base54"
    /\ atom.n = u32_MAX
    /\ ~atom.panic
    /\ Len(NameOf(atom.bytes)) = 6
    /\ base54_faster(atom.n).atom = atom.bytes
    /\ Len(FasterIndexes(atom.n)) = 6

====
